---- MODULE Spec2Model ----
(***************************************************************************)
(* A model of the binary property-list decoder parseBuffer.                *)
(*                                                                         *)
(* The repository holds three revisions of the decoder; the model carries  *)
(* all three and the variable `variant` says which one is running:         *)
(*   "DataView"  src/src/bplistParser.ts lines 1-348   (DataView reads,    *)
(*               readUInt limited to 1 and 2 bytes, utf-16be decoder)      *)
(*   "Swap"      src/src/bplistParser.ts lines 350-717 (trailer subarray,  *)
(*               readUInt folding any width, swapBytes + utf-16le)         *)
(*   "Buffer"    src/unnamed/part_000                  (node Buffer,       *)
(*               32-bit trailer fields, no key check, result in a tuple)   *)
(*                                                                         *)
(* Buffers are sequences of bytes; byte offsets are 0-based as in the      *)
(* source, so the byte at offset i of b is b[i+1].                         *)
(***************************************************************************)
EXTENDS Integers, Sequences, FiniteSets, TLC

VARIABLES
  variant,            \* which revision of parseBuffer runs
  buffer,             \* the caller's buffer
  pc,                 \* position inside parseBuffer
  offsetSize, objectRefSize, numObjects, topObject, offsetTableOffset,
  offsetTable,        \* the offset table built so far
  call,               \* the object index parseObject is about to decode, or NoCall
  stack,              \* the array / dictionary frames being filled
  result,             \* what parseBuffer returned
  error,              \* what parseBuffer threw
  thrownAt,           \* the index of the object whose decoder threw, -1 if none did
  trailerReads,       \* trailer fields read so far
  tableReads,         \* offset-table entries read so far
  last,               \* the object parseObject entered most recently
  textDecoder,        \* the bytes the module's TextDecoder holds back
  input,              \* the bytes of the caller's buffer before the call
  entryPoint,         \* the exported function the caller called
  argument,           \* fileNameOrBuffer
  callback,           \* whether parseFile was given a callback
  outcome,            \* how the call ended for the caller
  callbacks,          \* the callback invocations of the call
  escaped,            \* an exception nobody catches was thrown
  history,            \* the calls that ended, each with its outcome
  previous            \* the argument of the call that ended last

\* What the steps of parseBuffer never touch.
outside == <<input, entryPoint, argument, callback, outcome, callbacks, escaped,
             history, previous>>

vars == <<variant, buffer, pc, offsetSize, objectRefSize, numObjects, topObject,
          offsetTableOffset, offsetTable, call, stack, result, error,
          thrownAt, trailerReads, tableReads, last, textDecoder, outside>>

Variants == {"DataView", "Swap", "Buffer"}

----------------------------------------------------------------------------
(* Numbers.  TLC's integers are 32 bits wide, so values that the source    *)
(* holds in a 64-bit field or a double are kept exactly below Huge and as   *)
(* Huge from there on; every buffer of the model is far shorter than Huge,  *)
(* so an index of Huge or more is past the end either way.                  *)

Huge == 1024 * 1024 * 1024

Min(a, b) == IF a < b THEN a ELSE b
Max(a, b) == IF a > b THEN a ELSE b

SatMul(a, b) == IF a = 0 \/ b = 0 THEN 0
                ELSE IF a >= Huge \/ b >= Huge \/ a > (Huge \div b) THEN Huge
                ELSE Min(a * b, Huge)

RECURSIVE satBE(_, _)
satBE(acc, bytes) ==
  IF bytes = <<>> THEN acc
  ELSE satBE(IF acc >= Huge \div 256 THEN Huge ELSE acc * 256 + Head(bytes),
             Tail(bytes))

Ok(x)  == [ok |-> TRUE,  val |-> x, err |-> "none"]
Err(e) == [ok |-> FALSE, val |-> 0, err |-> e]

----------------------------------------------------------------------------
(* Typed-array primitives.                                                 *)

RelIndex(i, len) == IF i < 0 THEN Max(len + i, 0) ELSE Min(i, len)

\* Uint8Array.prototype.subarray / Buffer.prototype.slice: both ends are
\* clamped to the array and negative ends count from its end.
subarray(b, start, end) ==
  LET f == RelIndex(start, Len(b))
      t == RelIndex(end, Len(b))
  IN  IF t > f THEN SubSeq(b, f + 1, t) ELSE <<>>

\* DataView.getUint8 / Buffer.readUInt8: a RangeError outside the view.
getUint8(b, idx) ==
  IF idx < 0 \/ idx + 1 > Len(b) THEN Err("RangeError") ELSE Ok(b[idx + 1])

\* DataView.getBigUint64(idx, false), then Number(): the whole 64-bit field.
getBigUint64(b, idx) ==
  IF idx < 0 \/ idx + 8 > Len(b) THEN Err("RangeError")
  ELSE Ok(satBE(0, SubSeq(b, idx + 1, idx + 8)))

\* Buffer.readUInt32BE(idx).
readUInt32BE(b, idx) ==
  IF idx < 0 \/ idx + 4 > Len(b) THEN Err("RangeError")
  ELSE Ok(satBE(0, SubSeq(b, idx + 1, idx + 4)))

\* let l = 0; for each byte: l <<= 8; l |= byte & 0xFF.  Both operators work
\* on 32-bit signed integers, so what is left is the last four bytes read
\* as a two's-complement number.
foldInt32(bytes) ==
  LET n == Len(bytes)
      byte(k) == IF n - k >= 1 THEN bytes[n - k] ELSE 0
  IN  (IF byte(3) >= 128 THEN byte(3) - 256 ELSE byte(3)) * 16777216
      + byte(2) * 65536 + byte(1) * 256 + byte(0)

\* readUInt: the DataView revision reads 1 or 2 bytes and throws on any other
\* length; the other two revisions fold every byte into a 32-bit integer.
readUInt(v, bytes) ==
  IF v = "DataView"
  THEN CASE Len(bytes) = 1 -> Ok(bytes[1])
         [] Len(bytes) = 2 -> Ok(bytes[1] * 256 + bytes[2])
         [] OTHER          -> Err("UintLength")
  ELSE Ok(foldInt32(bytes))

\* readUInt64BE: the Swap revision reads the 8 bytes, the Buffer revision
\* tosses the high-order 4 bytes.
readUInt64BE(v, trailer, start) ==
  LET data == subarray(trailer, start, start + 8)
  IN  IF v = "Buffer" THEN readUInt32BE(data, 4) ELSE getBigUint64(data, 0)

----------------------------------------------------------------------------
(* Text decoding.  A decoded string is its sequence of UTF-16 code units.  *)

Replacement == 65533
ByteOrderMark == 65279

CodePoint(cp) ==
  IF cp < 65536 THEN <<cp>>
  ELSE <<55296 + ((cp - 65536) \div 1024), 56320 + ((cp - 65536) % 1024)>>

InBuf(b, i, lo, hi) == i <= Len(b) /\ b[i] >= lo /\ b[i] <= hi

\* The WHATWG UTF-8 decoder: an ill-formed sequence yields U+FFFD for its
\* maximal valid prefix and decoding resumes at the offending byte.
RECURSIVE utf8(_, _)
utf8(b, i) ==
  IF i > Len(b) THEN <<>>
  ELSE LET c == b[i] IN
    IF c < 128 THEN <<c>> \o utf8(b, i + 1)
    ELSE IF c >= 194 /\ c <= 223 THEN
      IF InBuf(b, i + 1, 128, 191)
      THEN <<(c - 192) * 64 + (b[i + 1] - 128)>> \o utf8(b, i + 2)
      ELSE <<Replacement>> \o utf8(b, i + 1)
    ELSE IF c >= 224 /\ c <= 239 THEN
      LET lo == IF c = 224 THEN 160 ELSE 128
          hi == IF c = 237 THEN 159 ELSE 191
      IN  IF ~InBuf(b, i + 1, lo, hi) THEN <<Replacement>> \o utf8(b, i + 1)
          ELSE IF ~InBuf(b, i + 2, 128, 191) THEN <<Replacement>> \o utf8(b, i + 2)
          ELSE <<(c - 224) * 4096 + (b[i + 1] - 128) * 64 + (b[i + 2] - 128)>>
               \o utf8(b, i + 3)
    ELSE IF c >= 240 /\ c <= 244 THEN
      LET lo == IF c = 240 THEN 144 ELSE 128
          hi == IF c = 244 THEN 143 ELSE 191
      IN  IF ~InBuf(b, i + 1, lo, hi) THEN <<Replacement>> \o utf8(b, i + 1)
          ELSE IF ~InBuf(b, i + 2, 128, 191) THEN <<Replacement>> \o utf8(b, i + 2)
          ELSE IF ~InBuf(b, i + 3, 128, 191) THEN <<Replacement>> \o utf8(b, i + 3)
          ELSE CodePoint((c - 240) * 262144 + (b[i + 1] - 128) * 4096
                         + (b[i + 2] - 128) * 64 + (b[i + 3] - 128))
               \o utf8(b, i + 4)
    ELSE <<Replacement>> \o utf8(b, i + 1)

\* TextDecoder.decode drops one leading byte order mark; Buffer.toString
\* keeps it.
StripBOM(s) == IF s # <<>> /\ Head(s) = ByteOrderMark THEN Tail(s) ELSE s

decodeUtf8(v, bytes) ==
  IF v = "Buffer" THEN utf8(bytes, 1) ELSE StripBOM(utf8(bytes, 1))

\* The lead byte a byte sequence ends with, which a streaming decoder keeps
\* until its continuation bytes arrive.
pendingLead(bytes) ==
  IF bytes # <<>> /\ bytes[Len(bytes)] >= 194 /\ bytes[Len(bytes)] <= 244
  THEN <<bytes[Len(bytes)]>> ELSE <<>>

\* decode(bytes, {stream: true}) on the shared decoder: the bytes kept by the
\* decode before are read first, and an unfinished sequence is kept.
decodeStreaming(v, kept, bytes) ==
  IF v = "Buffer" THEN [text |-> decodeUtf8(v, bytes), kept |-> <<>>]
  ELSE LET all  == kept \o bytes
           tail == pendingLead(all)
       IN  [text |-> decodeUtf8(v, SubSeq(all, 1, Len(all) - Len(tail))), kept |-> tail]

\* textDecoder.decode(bytes) on the one decoder all calls share: without
\* {stream: true} the decoder starts afresh and keeps nothing, so kept plays
\* no part.  The Buffer revision has no decoder (buffer.toString).
decode(v, kept, bytes) == [text |-> decodeUtf8(v, bytes), kept |-> <<>>]

IsHigh(u) == u >= 55296 /\ u <= 56319
IsLow(u)  == u >= 56320 /\ u <= 57343

\* The code units of a byte sequence, first byte of each pair weighted by
\* hiFirst (big endian) or not (little endian); an odd last byte is dropped.
RECURSIVE units(_, _, _)
units(b, i, hiFirst) ==
  IF i + 1 > Len(b) THEN <<>>
  ELSE <<IF hiFirst THEN b[i] * 256 + b[i + 1] ELSE b[i + 1] * 256 + b[i]>>
       \o units(b, i + 2, hiFirst)

\* The WHATWG UTF-16 decoder on code units: a lone surrogate becomes U+FFFD.
RECURSIVE scrub(_, _)
scrub(u, i) ==
  IF i > Len(u) THEN <<>>
  ELSE IF IsHigh(u[i]) THEN
    IF i + 1 <= Len(u) /\ IsLow(u[i + 1])
    THEN <<u[i], u[i + 1]>> \o scrub(u, i + 2)
    ELSE <<Replacement>> \o scrub(u, i + 1)
  ELSE IF IsLow(u[i]) THEN <<Replacement>> \o scrub(u, i + 1)
  ELSE <<u[i]>> \o scrub(u, i + 1)

\* new TextDecoder("utf-16be" / "utf-16le").decode: an odd trailing byte
\* becomes U+FFFD.
decodeUtf16(bytes, hiFirst) ==
  StripBOM(scrub(units(bytes, 1, hiFirst), 1)
           \o (IF Len(bytes) % 2 = 1 THEN <<Replacement>> ELSE <<>>))

\* swapBytes: exchanges the bytes of every pair in place; on an odd length
\* the last byte is overwritten with buffer[len], which is undefined, so 0.
swapBytes(bytes) ==
  [i \in 1..Len(bytes) |->
     IF i % 2 = 1 THEN (IF i + 1 <= Len(bytes) THEN bytes[i + 1] ELSE 0)
     ELSE bytes[i - 1]]

----------------------------------------------------------------------------
(* Decoded values: a record with a tag t and a payload v.                  *)
(*   null 0 | bool BOOLEAN | int Int | bigint hex digits, most significant *)
(*   first, no leading zero | uid Int | real: the IEEE-754 bytes | date:   *)
(*   seconds and milliseconds since the Unix epoch |                       *)
(*   data bytes | string code units | array values | dict entries in       *)
(*   property order | undefined 0 | tuple values                           *)

Null       == [t |-> "null", v |-> 0]
Undefined  == [t |-> "undefined", v |-> 0]
BoolProperty(x)    == [t |-> "bool", v |-> x]
IntegerProperty(n)     == [t |-> "int", v |-> n]
BigIntProperty(d)  == [t |-> "bigint", v |-> d]
UIDProperty(n)     == [t |-> "uid", v |-> n]
RealProperty(b)    == [t |-> "real", v |-> b]
DateProperty(b)    == [t |-> "date", v |-> b]
DataProperty(b)    == [t |-> "data", v |-> b]
\* A Data value made with buffer.subarray(start, end) or buffer.slice(start,
\* end): a view, whose bytes are the bytes from .. to - 1 of the buffer's
\* own memory.
View(b, start, end) ==
  [t |-> "data", v |-> subarray(b, start, end),
   from |-> RelIndex(start, Len(b)), to |-> RelIndex(end, Len(b))]
StringProperty(s)  == [t |-> "string", v |-> s]
ArrayProperty(a)   == [t |-> "array", v |-> a]
DictionaryProperty(e)    == [t |-> "dict", v |-> e]
Tuple(a)   == [t |-> "tuple", v |-> a]

maxObjectCount == 32768

\* maxObjectSize is 100 ** 8 in the DataView and Swap revisions and
\* 100 * 1000 * 1000 in the Buffer revision.  100 ** 8 = (100 ** 4) ** 2 does
\* not fit a TLC integer, so x < 100 ** 8 is decided as x \div 100**4 < 100**4.
maxObjectSizeRoot == 100 * 100 * 100 * 100
maxObjectSizeBuffer == 100 * 1000 * 1000

\* length < maxObjectSize
belowMaxObjectSize(v, x) ==
  IF v = "Buffer" THEN x < maxObjectSizeBuffer
  ELSE (x \div maxObjectSizeRoot) < maxObjectSizeRoot

\* size > maxObjectSize
aboveMaxObjectSize(v, x) ==
  IF v = "Buffer" THEN x > maxObjectSizeBuffer
  ELSE \/ (x \div maxObjectSizeRoot) > maxObjectSizeRoot
       \/ (x \div maxObjectSizeRoot) = maxObjectSizeRoot /\ x % maxObjectSizeRoot > 0

\* A JavaScript number product or sum, kept within -Huge..Huge.
Clamp(x) == Max(0 - Huge, Min(x, Huge))
Times(a, k) == IF a < 0 THEN (IF k = 0 THEN 0 ELSE 0 - SatMul(Min(0 - a, Huge), k))
               ELSE SatMul(Min(a, Huge), k)

\* buffer[i] & mask: a read outside the array is undefined, and
\* undefined & mask is 0.
byteAt(b, i) == IF i >= 0 /\ i < Len(b) THEN b[i + 1] ELSE 0

Pow2(k) == CASE k = 0 -> 1 [] k = 1 -> 2 [] k = 2 -> 4 [] k = 3 -> 8
             [] k = 4 -> 16 [] k = 5 -> 32 [] k = 6 -> 64 [] k = 7 -> 128
             [] k = 8 -> 256 [] k = 9 -> 512 [] k = 10 -> 1024
             [] k = 11 -> 2048 [] k = 12 -> 4096 [] k = 13 -> 8192
             [] k = 14 -> 16384 [] OTHER -> 32768

\* The switch with a case 0x7 that falls into the UTF-16 decoder.
objectKindWithSeven(objType) ==
  CASE objType = 0 -> "simple" [] objType = 1 -> "integer" [] objType = 8 -> "uid"
    [] objType = 2 -> "real" [] objType = 3 -> "date" [] objType = 4 -> "data"
    [] objType = 5 -> "ascii" [] objType = 6 -> "utf16" [] objType = 7 -> "utf16"
    [] objType = 10 -> "array" [] objType = 13 -> "dict" [] OTHER -> "unhandled"

\* The switch of parseObject on the high nibble of the type byte.
objectKind(objType) ==
  CASE objType = 0  -> "simple"
    [] objType = 1  -> "integer"
    [] objType = 8  -> "uid"
    [] objType = 2  -> "real"
    [] objType = 3  -> "date"
    [] objType = 4  -> "data"
    [] objType = 5  -> "ascii"
    [] objType = 6  -> "utf16"
    [] objType = 10 -> "array"
    [] objType = 13 -> "dict"
    [] OTHER        -> "unhandled"

parseSimple(objInfo) ==
  CASE objInfo = 0  -> Ok(Null)
    [] objInfo = 8  -> Ok(BoolProperty(FALSE))
    [] objInfo = 9  -> Ok(BoolProperty(TRUE))
    [] objInfo = 15 -> Ok(Null)
    [] OTHER        -> Err("UnhandledSimple")

RECURSIVE dropZeros(_)
dropZeros(s) == IF s # <<>> /\ Head(s) = 0 THEN dropZeros(Tail(s)) ELSE s

RECURSIVE hexDigits(_)
hexDigits(bytes) ==
  IF bytes = <<>> THEN <<>>
  ELSE <<Head(bytes) \div 16, Head(bytes) % 16>> \o hexDigits(Tail(bytes))

\* bufferToHexString: skips the leading zero bytes, then two hex digits a byte.
bufferToHexString(data) == hexDigits(dropZeros(data))

\* BigInt("0x" + str): a SyntaxError when str holds no digit.
bigIntOfHex(str) ==
  IF str = <<>> THEN Err("SyntaxError") ELSE Ok(BigIntProperty(dropZeros(str)))

\* parseInteger.  data.reduce without an initial value starts from data[0],
\* which is the fold from 0 over all of data, and throws a TypeError on an
\* empty array.
parseInteger(v, b, offset, objInfo) ==
  LET length == Pow2(objInfo)
      data   == subarray(b, offset + 1, offset + 1 + length)
  IN  IF ~belowMaxObjectSize(v, length) THEN Err("HeapSpace")
      ELSE IF length = 16 THEN bigIntOfHex(bufferToHexString(data))
      ELSE IF data = <<>> THEN Err("TypeError")
      ELSE Ok(IntegerProperty(foldInt32(data)))

parseUID(v, b, offset, objInfo) ==
  LET length == objInfo + 1
      r      == readUInt(v, subarray(b, offset + 1, offset + 1 + length))
  IN  IF ~belowMaxObjectSize(v, length) THEN Err("HeapSpace")
      ELSE IF r.ok THEN Ok(UIDProperty(r.val)) ELSE Err(r.err)

\* parseReal.  getFloat32 / getFloat64 throw a RangeError on a short view;
\* the Buffer revision falls off the end for any other length.
parseReal(v, b, offset, objInfo) ==
  LET length     == Pow2(objInfo)
      realBuffer == subarray(b, offset + 1, offset + 1 + length)
  IN  IF ~belowMaxObjectSize(v, length) THEN Err("HeapSpace")
      ELSE IF length = 4 \/ length = 8 THEN
        IF Len(realBuffer) < length THEN Err("RangeError") ELSE Ok(RealProperty(realBuffer))
      ELSE IF v = "Buffer" THEN Ok(Undefined)
      ELSE Err("RealLength")

\* EPOCH = 978307200000 milliseconds, kept here in seconds: the number in
\* milliseconds does not fit a TLC integer.
EPOCH == 978307200

RECURSIVE TwoTo(_)
TwoTo(k) == IF k = 0 THEN 1 ELSE 2 * TwoTo(k - 1)

\* DataView.getFloat64(0, false) / readDoubleBE(0) of eight bytes: sign, 11
\* exponent bits, 52 mantissa bits.  The number is kept in thousandths, and
\* only where that is a whole number below 2^30 in magnitude (zero, and
\* M * 2^(E - 28) with 1000 * M * 2^(E - 28) whole, E in -3..19); every
\* other float, NaN and the infinities included, is kept as its bytes.
getFloat64(bytes) ==
  LET negative == bytes[1] >= 128
      E        == (bytes[1] % 128) * 16 + (bytes[2] \div 16) - 1023
      M        == 268435456 + (bytes[2] % 16) * 16777216 + bytes[3] * 65536
                  + bytes[4] * 256 + bytes[5]
      lowZero  == bytes[6] = 0 /\ bytes[7] = 0 /\ bytes[8] = 0
      zero     == E = 0 - 1023 /\ M = 268435456 /\ lowZero
      whole    == E >= 0 - 3 /\ E <= 19 /\ lowZero /\ M % TwoTo(25 - E) = 0
      size     == 125 * (M \div TwoTo(25 - E))
  IN  IF zero THEN [exact |-> TRUE, thousandths |-> 0, bytes |-> <<>>]
      ELSE IF whole
      THEN [exact |-> TRUE, thousandths |-> IF negative THEN 0 - size ELSE size,
            bytes |-> <<>>]
      ELSE [exact |-> FALSE, thousandths |-> 0, bytes |-> bytes]

\* A date counted from the Unix epoch itself, without EPOCH.
dateOfUnixEpoch(x) ==
  IF x.exact
  THEN [s |-> x.thousandths \div 1000, ms |-> x.thousandths % 1000, bytes |-> <<>>]
  ELSE [s |-> 0, ms |-> 0, bytes |-> x.bytes]

\* new Date(EPOCH + (1000 * x)): the instant as whole seconds and
\* milliseconds since the Unix epoch.
dateOf(x) ==
  IF x.exact
  THEN [s |-> EPOCH + (x.thousandths \div 1000), ms |-> x.thousandths % 1000,
        bytes |-> <<>>]
  ELSE [s |-> 0, ms |-> 0, bytes |-> x.bytes]

\* parseDate: objInfo is only looked at for the warning.
parseDate(v, b, offset, objInfo) ==
  LET dateBuffer == subarray(b, offset + 1, offset + 9)
  IN  IF Len(dateBuffer) < 8 THEN Err("RangeError")
      ELSE Ok(DateProperty(dateOf(getFloat64(dateBuffer))))

\* The length of a data, string, array or dictionary object: the low nibble,
\* or after the 0xF marker an integer of 2^intInfo bytes at offset + 2.
lengthHeader(v, b, offset, objInfo) ==
  IF objInfo # 15 THEN [ok |-> TRUE, err |-> "none", length |-> objInfo, start |-> 1]
  ELSE LET int_type  == byteAt(b, offset + 1)
           intInfo   == int_type % 16
           intLength == Pow2(intInfo)
           r == readUInt(v, subarray(b, offset + 2, offset + 2 + intLength))
       IN  [ok |-> r.ok, err |-> r.err, length |-> r.val, start |-> 2 + intLength]

parseData(v, b, offset, objInfo) ==
  LET h == lengthHeader(v, b, offset, objInfo)
  IN  IF ~h.ok THEN Err(h.err)
      ELSE IF belowMaxObjectSize(v, h.length)
      THEN Ok(View(b, offset + h.start, offset + h.start + Clamp(h.length)))
      ELSE Err("HeapSpace")

\* The text of a string object's bytes, as each revision decodes it.
decodeString(v, kept, bytes, isUtf16) ==
  IF ~isUtf16 THEN decode(v, kept, bytes).text
  ELSE CASE v = "DataView" -> decodeUtf16(bytes, TRUE)
         [] v = "Swap"     -> decodeUtf16(swapBytes(bytes), FALSE)
         [] OTHER          -> units(swapBytes(bytes), 1, FALSE)

\* The bytes of a string object: where they start and end in the buffer,
\* and the bytes themselves.
stringBytes(v, b, offset, objInfo, isUtf16) ==
  LET h      == lengthHeader(v, b, offset, objInfo)
      length == Times(h.length, IF isUtf16 THEN 2 ELSE 1)
  IN  IF ~h.ok THEN Err(h.err)
      ELSE IF belowMaxObjectSize(v, length)
      THEN Ok([start |-> offset + h.start, end |-> offset + h.start + length,
               bytes |-> subarray(b, offset + h.start, offset + h.start + length)])
      ELSE Err("HeapSpace")

parsePlistString(v, kept, b, offset, objInfo, isUtf16) ==
  LET plainBuffer == stringBytes(v, b, offset, objInfo, isUtf16)
  IN  IF ~plainBuffer.ok THEN Err(plainBuffer.err)
      ELSE Ok(StringProperty(decodeString(v, kept, plainBuffer.val.bytes, isUtf16)))

\* swapBytes run on buffer.subarray(...) itself, a view of the caller's
\* memory: the string's bytes in the caller's buffer end up exchanged.
swapThroughView(v, b, start, end) ==
  IF v = "DataView" THEN b
  ELSE LET from    == RelIndex(start, Len(b))
           to      == RelIndex(end, Len(b))
           swapped == swapBytes(subarray(b, start, end))
       IN  [i \in 1..Len(b) |-> IF i > from /\ i <= to THEN swapped[i - from] ELSE b[i]]

\* The caller's buffer after a UTF-16 string was decoded.  new Uint8Array(
\* buffer.subarray(...)) and Buffer.from(buffer.slice(...)) copy the bytes
\* before swapBytes exchanges them, and the DataView revision exchanges
\* nothing: the caller's bytes stay as they were.
swapOnCopy(v, b, start, end) == b

----------------------------------------------------------------------------
(* Dictionaries: dict[key] = val on a plain JavaScript object.             *)

RECURSIVE decimal(_)
decimal(n) == IF n < 10 THEN <<48 + n>> ELSE decimal(n \div 10) \o <<48 + (n % 10)>>

RECURSIVE joined(_, _)

\* ToString(key), the property name dict[key] uses for a key that is not a
\* string (the Buffer revision stores under it).  Numbers that the model
\* keeps as bytes or hex digits are named by those, after a marker unit.
toPropertyKey(key) ==
  CASE key.t = "string"    -> key.v
    [] key.t = "int"       -> IF key.v < 0 THEN <<45>> \o decimal(0 - key.v)
                              ELSE decimal(key.v)
    [] key.t = "bool"      -> IF key.v THEN <<116, 114, 117, 101>>
                              ELSE <<102, 97, 108, 115, 101>>
    [] key.t = "null"      -> <<110, 117, 108, 108>>
    [] key.t = "undefined" -> <<117, 110, 100, 101, 102, 105, 110, 101, 100>>
    [] key.t = "data"      -> utf8(key.v, 1)
    [] key.t = "array"     -> joined(key.v, 1)
    [] key.t \in {"dict", "uid"} ->
         <<91, 111, 98, 106, 101, 99, 116, 32, 79, 98, 106, 101, 99, 116, 93>>
    [] OTHER               -> <<0>> \o key.v

\* Array.prototype.join: null and undefined elements give empty strings.
joined(a, i) ==
  IF i > Len(a) THEN <<>>
  ELSE (IF a[i].t \in {"null", "undefined"} THEN <<>> ELSE toPropertyKey(a[i]))
       \o (IF i < Len(a) THEN <<44>> ELSE <<>>) \o joined(a, i + 1)

\* "__proto__": assigning it on a plain object runs the prototype setter and
\* creates no property.
ProtoKey == <<95, 95, 112, 114, 111, 116, 111, 95, 95>>

RECURSIVE lexLeq(_, _)
lexLeq(a, b) ==
  IF a = <<>> THEN TRUE
  ELSE IF b = <<>> THEN FALSE
  ELSE IF Head(a) # Head(b) THEN Head(a) < Head(b)
  ELSE lexLeq(Tail(a), Tail(b))

\* A canonical array index "0" .. "4294967294": such properties enumerate
\* first, in ascending numeric order.
isIndexKey(k) ==
  /\ Len(k) >= 1 /\ Len(k) <= 10
  /\ \A i \in 1..Len(k) : k[i] >= 48 /\ k[i] <= 57
  /\ (Len(k) = 1 \/ k[1] # 48)
  /\ (Len(k) = 10 => lexLeq(k, <<52, 50, 57, 52, 57, 54, 55, 50, 57, 52>>))

indexLess(a, b) == Len(a) < Len(b) \/ (Len(a) = Len(b) /\ a # b /\ lexLeq(a, b))

\* dict[key] = val: an existing property keeps its place and takes the new
\* value; a new one goes after the index keys below it (an index key) or last.
dictSet(entries, k, val) ==
  IF k = ProtoKey THEN entries
  ELSE IF \E i \in 1..Len(entries) : entries[i].k = k
  THEN [i \in 1..Len(entries) |->
          IF entries[i].k = k THEN [k |-> k, val |-> val] ELSE entries[i]]
  ELSE IF isIndexKey(k)
  THEN LET before == Cardinality({i \in 1..Len(entries) :
                        isIndexKey(entries[i].k) /\ indexLess(entries[i].k, k)})
       IN  SubSeq(entries, 1, before) \o <<[k |-> k, val |-> val]>>
           \o SubSeq(entries, before + 1, Len(entries))
  ELSE Append(entries, [k |-> k, val |-> val])

----------------------------------------------------------------------------
(* The buffers parseBuffer is run on.  A well-formed one is the magic and  *)
(* version, the objects, the offset table and the 32-byte trailer.          *)

MaxDepth == 4        \* frames parseObject may nest
MaxElements == 20    \* turns of one array or dictionary loop
MaxArrayLen == 16    \* the longest array among the buffers
MaxPrefix == 40      \* the longest truncated buffer

\* 'bplist'
bplist == <<98, 112, 108, 105, 115, 116>>

RECURSIVE be(_, _)
be(n, w) == IF w = 0 THEN <<>> ELSE be(n \div 256, w - 1) \o <<n % 256>>

RECURSIVE flat(_)
flat(objs) == IF objs = <<>> THEN <<>> ELSE Head(objs) \o flat(Tail(objs))

RECURSIVE starts(_, _)
starts(objs, at) ==
  IF objs = <<>> THEN <<>> ELSE <<at>> \o starts(Tail(objs), at + Len(Head(objs)))

RECURSIVE beAll(_, _)
beAll(ns, w) == IF ns = <<>> THEN <<>> ELSE be(Head(ns), w) \o beAll(Tail(ns), w)

Version00 == <<48, 48>>

trailerBytes(os, rs, num, top, tableOff) ==
  <<0, 0, 0, 0, 0, 0, os, rs>> \o num \o be(top, 8) \o be(tableOff, 8)

\* A plist whose trailer declares the 8 bytes num as numObjects.
plistCounting(ver, objs, os, rs, top, num) ==
  bplist \o ver \o flat(objs) \o beAll(starts(objs, 8), os)
  \o trailerBytes(os, rs, num, top, 8 + Len(flat(objs)))

plist(ver, objs, os, rs, top) == plistCounting(ver, objs, os, rs, top, be(Len(objs), 8))

Log2(w) == CASE w = 1 -> 0 [] w = 2 -> 1 [] w = 4 -> 2 [] OTHER -> 3

\* The type byte and length of an object of n elements: inline (w = 0) or
\* after the 0xF marker as an integer of w bytes.
headed(tag, n, w) ==
  IF w = 0 THEN <<tag + n>> ELSE <<tag + 15, 16 + Log2(w)>> \o be(n, w)

\* The same with the length bytes given as they are.
headedRaw(tag, lenBytes) == <<tag + 15, 16 + Log2(Len(lenBytes))>> \o lenBytes

objTrue   == <<9>>
objFalse  == <<8>>
objNull   == <<0>>
objInt(n) == <<16, n>>
objAscii(str) == headed(80, Len(str), 0) \o str
objArray(refs, rs, w) == headed(160, Len(refs), w) \o beAll(refs, rs)
objDict(keys, vals, rs, w) ==
  headed(208, Len(keys), w) \o beAll(keys, rs) \o beAll(vals, rs)
objBad    == <<112>>

keyA == <<65>>
keyB == <<66>>

\* {"A": true}
SingleKey == plist(Version00, <<objDict(<<1>>, <<2>>, 1, 0), objAscii(keyA), objTrue>>, 1, 1, 0)

\* One object of every type byte, followed by bytes that give each kind a
\* payload: a length marker of 1 byte, the length 2, then references to
\* objects outside the table.
TailBytes == <<16, 2, 1, 1, 1, 1, 1, 1, 1, 1, 1, 1, 1, 1, 1, 1, 1>>
EveryTypeByte == {plist(Version00, <<(<<t>> \o TailBytes)>>, 1, 1, 0) : t \in 0..255}

\* SingleKey with one byte of the magic changed, the magic cut short, a byte
\* order mark in front, and other version bytes.
replaced(b, i, x) == [j \in 1..Len(b) |-> IF j = i + 1 THEN x ELSE b[j]]
BadMagic ==
  ({replaced(SingleKey, i, x) : i \in 0..5, x \in {0, 66, 112, 255}} \ {SingleKey})
  \cup {<<239, 187, 191>> \o SingleKey}
Versions ==
  {replaced(replaced(SingleKey, 6, x), 7, y) : x \in {0, 48, 49, 255}, y \in {0, 48, 53}}

\* The first n bytes of SingleKey, and of a buffer that is 'bplist' followed
\* by zero bytes.
Zeros(n) == [i \in 1..n |-> 0]
Prefixes ==
  {subarray(SingleKey, 0, n) : n \in 0..MaxPrefix}
  \cup {subarray(bplist \o Zeros(MaxPrefix), 0, n) : n \in 6..MaxPrefix}

\* 32 bytes that are magic and trailer at once: table at offset 23, whose
\* byte 0 sends object 0 to offset 0, the 'b' of the magic.
Overlapping == bplist \o <<1, 1>> \o be(1, 8) \o be(0, 8) \o be(23, 8)

\* SingleKey declaring other object counts.
counted(num) ==
  plistCounting(Version00, <<objDict(<<1>>, <<2>>, 1, 0), objAscii(keyA), objTrue>>,
                1, 1, 0, num)
Counts ==
  {counted(be(n, 8)) : n \in {2, 4, 32767, 32768, 32769, 40000, 16777216}}
  \cup {counted(<<0, 0, 0, 1, 0, 0, 0, 3>>), counted(<<0, 0, 0, 1, 0, 0, 128, 1>>),
        counted(<<1, 0, 0, 0, 0, 0, 0, 0>>),
        counted(<<255, 255, 255, 255, 255, 255, 255, 255>>)}

\* Objects declaring large payloads: 200000001, 100000000, 60000000,
\* 4294967295 and 2^32 + 5 elements.
BigLengths == {<<11, 235, 194, 1>>, <<5, 245, 225, 0>>, <<3, 147, 135, 0>>,
               <<255, 255, 255, 255>>, <<0, 0, 0, 1, 0, 0, 0, 5>>}
LargePayloads ==
  {plist(Version00, <<headedRaw(tag, n) \o <<1, 1, 1, 1>>>>, 1, 1, 0) :
     tag \in {64, 80, 96, 160, 208}, n \in BigLengths}

\* Arrays of 0..MaxArrayLen one-byte integers; from 15 on the length is in the
\* extended form.
Numbers(n) == [i \in 1..n |-> objInt(i)]
Refs(n) == [i \in 1..n |-> i]
ArrayOf(n, os, rs, w) ==
  plist(Version00, <<objArray(Refs(n), rs, w)>> \o Numbers(n), os, rs, 0)
Arrays ==
  {ArrayOf(n, 1, 1, IF n < 15 THEN 0 ELSE 1) : n \in 0..MaxArrayLen}
  \cup {ArrayOf(3, 1, 1, w) : w \in {1, 2, 4, 8}}
  \cup {ArrayOf(3, os, rs, 0) : os \in {1, 2, 4}, rs \in {1, 2, 4}}

\* Nested containers, some holding an object that fails to decode.
Nested ==
  { \* [[1, 2], [3]]
    plist(Version00, <<objArray(<<1, 2>>, 1, 0), objArray(<<3, 4>>, 1, 0),
                       objArray(<<5>>, 1, 0), objInt(1), objInt(2), objInt(3)>>, 1, 1, 0),
    \* [[1, <bad>], 2]
    plist(Version00, <<objArray(<<1, 2>>, 1, 0), objArray(<<3, 4>>, 1, 0), objInt(2),
                       objInt(1), objBad>>, 1, 1, 0),
    \* [1, {"A": <bad>}, 2]
    plist(Version00, <<objArray(<<1, 2, 1>>, 1, 0), objInt(1),
                       objDict(<<3>>, <<4>>, 1, 0), objAscii(keyA), objBad>>, 1, 1, 0),
    \* {"A": [true, {"B": 1}]}
    plist(Version00, <<objDict(<<1>>, <<2>>, 1, 0), objAscii(keyA),
                       objArray(<<3, 4>>, 1, 0), objTrue, objDict(<<5>>, <<6>>, 1, 0),
                       objAscii(keyB), objInt(1)>>, 1, 1, 0),
    \* the top object index outside the table
    plist(Version00, <<objInt(1)>>, 1, 1, 3) }

\* Dictionaries: two keys, a key that is not a string, the same key twice,
\* "__proto__", index-like keys, wider references and lengths.
Dictionaries ==
  { plist(Version00, <<objDict(<<1, 2>>, <<3, 4>>, 1, 0), objAscii(keyA), objAscii(keyB),
                       objTrue, objFalse>>, 1, 1, 0),
    plist(Version00, <<objDict(<<1>>, <<2>>, 1, 0), objInt(5), objTrue>>, 1, 1, 0),
    plist(Version00, <<objDict(<<1>>, <<2>>, 1, 0), objNull, objTrue>>, 1, 1, 0),
    plist(Version00, <<objDict(<<1, 2>>, <<3, 4>>, 1, 0), objAscii(keyA), objInt(5),
                       objBad, objTrue>>, 1, 1, 0),
    plist(Version00, <<objDict(<<1, 2>>, <<3, 4>>, 1, 0), objAscii(keyA), objInt(5),
                       objFalse, objTrue>>, 1, 1, 0),
    plist(Version00, <<objDict(<<1, 2>>, <<3, 4>>, 1, 0), objAscii(keyA), objAscii(keyA),
                       objTrue, objFalse>>, 1, 1, 0),
    plist(Version00, <<objDict(<<1>>, <<2>>, 1, 0), objAscii(ProtoKey), objTrue>>, 1, 1, 0),
    plist(Version00, <<objDict(<<1, 2>>, <<3, 4>>, 1, 0), objAscii(<<50>>), objAscii(<<49>>),
                       objTrue, objFalse>>, 1, 1, 0),
    plist(Version00, <<objDict(<<1, 2>>, <<3, 4>>, 2, 0), objAscii(keyA), objAscii(keyB),
                       objTrue, objFalse>>, 1, 2, 0),
    plist(Version00, <<objDict(<<1, 2>>, <<3, 4>>, 4, 0), objAscii(keyA), objAscii(keyB),
                       objTrue, objFalse>>, 1, 4, 0),
    plist(Version00, <<objDict(<<1, 2>>, <<3, 4>>, 1, 4), objAscii(keyA), objAscii(keyB),
                       objTrue, objFalse>>, 1, 1, 0) }

\* 16-byte integers.
Ones(n) == [i \in 1..n |-> 255]
Integers16 ==
  {plist(Version00, <<(<<20>> \o payload)>>, 1, 1, 0) :
     payload \in {Ones(16), Zeros(16), Zeros(15) \o <<1>>, Zeros(8) \o Ones(8),
                  Zeros(15) \o <<16>>, <<128>> \o Zeros(15), <<1, 2>> \o Zeros(13) \o <<3>>}}

\* A plist of one object.
single(obj) == plist(Version00, <<obj>>, 1, 1, 0)

\* Integers of 1, 2, 4 and 8 payload bytes: 255, 0x8000, 0xFFFFFFFF,
\* 1234567890, 0, 1234567890, -1234567890, 2^32, 2^63 - 1.
IntegerObjects ==
  {<<16, 255>>, <<17, 128, 0>>, <<18, 255, 255, 255, 255>>, <<18, 73, 150, 2, 210>>,
   <<19>> \o Zeros(8), <<19, 0, 0, 0, 0, 73, 150, 2, 210>>,
   <<19, 255, 255, 255, 255, 182, 105, 253, 46>>, <<19, 0, 0, 0, 1, 0, 0, 0, 0>>,
   <<19, 127>> \o Ones(7)}

\* UIDs of every payload length 1..16, and two with high bits set.
UIDObjects ==
  {<<128 + k>> \o Zeros(k) \o <<7>> : k \in 0..15}
  \cup {<<129, 1, 2>>, <<131, 255, 255, 255, 255>>}

\* Dates: 0.0, 0.0 under low nibble 0, 1.0, -1.0, 86400.0, 0.5, NaN, and one
\* cut short by the end of the objects.
DateObjects ==
  {<<51>> \o Zeros(8), <<48>> \o Zeros(8), <<51, 63, 240>> \o Zeros(6),
   <<51, 191, 240>> \o Zeros(6), <<51, 64, 245, 24>> \o Zeros(5),
   <<51, 63, 224>> \o Zeros(6), <<51, 127, 248>> \o Zeros(6), <<63, 64, 245, 24>> \o Zeros(5)}

\* Strings: the UTF-16 text of two CJK characters, one starting with U+FEFF,
\* a lone surrogate, a pair of surrogates; ASCII-tagged text with bytes >=
\* 0x80, with the bytes of a byte order mark, and with two bytes that would
\* be one UTF-16 unit.
StringObjects ==
  {<<98, 101, 229, 103, 44>>, <<98, 254, 255, 0, 65>>, <<97, 216, 0>>,
   <<98, 216, 61, 222, 0>>, <<97, 0, 65>>,
   <<81, 233>>, <<82, 195, 169>>, <<84, 239, 187, 191, 65>>, <<82, 0, 65>>,
   <<83, 65, 66, 67>>}

\* The length 3 written inline and in the extended form of every width, for
\* data, ASCII and UTF-16 objects.
LengthForms ==
  {headed(tag, 3, w) \o <<0, 65, 0, 66, 0, 67>> : tag \in {64, 80, 96}, w \in {0, 1, 2, 4, 8}}

Leaves ==
  {single(obj) : obj \in IntegerObjects \cup UIDObjects \cup DateObjects
                          \cup StringObjects \cup LengthForms}

\* The plist of the one object true whose offset table is the bytes given,
\* and the offset-table entries tried: 8 in 8 bytes, 2^32 + 8, and the four
\* bytes FF.
tabled(entryBytes) ==
  bplist \o Version00 \o objTrue \o entryBytes
  \o trailerBytes(Len(entryBytes), 1, be(1, 8), 0, 9)
WideOffsets ==
  {tabled(be(8, 8)), tabled(<<0, 0, 0, 1, 0, 0, 0, 8>>), tabled(<<255, 255, 255, 255>>),
   tabled(be(8, 3))}

\* {"A": [true, 5, UID 7, 1.0, the date 0, two data bytes, "\u0041"]}
Rich ==
  plist(Version00,
        <<objDict(<<1>>, <<2>>, 1, 0), objAscii(keyA),
          objArray(<<3, 4, 5, 6, 7, 8, 9>>, 1, 0), objTrue, objInt(5), <<128, 7>>,
          <<34, 63, 128, 0, 0>>, <<51>> \o Zeros(8), <<66, 1, 2>>, <<97, 0, 65>>>>,
        1, 1, 0)

\* A plist that fails to decode, and one whose ASCII string ends in the
\* first byte of a longer UTF-8 sequence.
Unhandled == single(objBad)
CutShort  == single(<<81, 233>>)

\* Offset-table entries that point past the end of the buffer: the entry of
\* the top object, of an array's second element, and of an object nothing
\* refers to.
PastEnd ==
  {tabled(<<200>>),
   replaced(plist(Version00, <<objArray(<<1, 2>>, 1, 0), objInt(1), objTrue>>, 1, 1, 0),
            16, 200),
   replaced(plist(Version00, <<objArray(<<1, 1>>, 1, 0), objInt(1), objTrue>>, 1, 1, 0),
            16, 200)}

\* Object graphs with a cycle: an array that is its own element, an array
\* whose second element is its parent, a dictionary that is its own value and
\* one that is its own key, and an array of an object that fails to decode
\* and of itself.
Cycles ==
  { plist(Version00, <<objArray(<<0>>, 1, 0)>>, 1, 1, 0),
    plist(Version00, <<objArray(<<1>>, 1, 0), objArray(<<2, 0>>, 1, 0), objTrue>>, 1, 1, 0),
    plist(Version00, <<objDict(<<1>>, <<0>>, 1, 0), objAscii(keyA)>>, 1, 1, 0),
    plist(Version00, <<objDict(<<0>>, <<1>>, 1, 0), objTrue>>, 1, 1, 0),
    plist(Version00, <<objArray(<<1, 0>>, 1, 0), objBad>>, 1, 1, 0) }

Inputs ==
  {SingleKey, Overlapping} \cup EveryTypeByte \cup BadMagic \cup Versions \cup Prefixes
  \cup Counts \cup LargePayloads \cup Arrays \cup Nested \cup Dictionaries \cup Integers16
  \cup Leaves \cup WideOffsets \cup PastEnd \cup Cycles \cup {Rich, Unhandled}

----------------------------------------------------------------------------
(* parseBuffer, step by step.                                              *)

\* call is <<>> or <<index>>: an object reference may be any 32-bit integer.
NoCall == <<>>
NoResult == [t |-> "none", v |-> 0]
NoObject == [idx |-> 0 - 1, offset |-> 0 - 1, type |-> 0 - 1, kind |-> "none"]

\* fileNameOrBuffer: a Buffer or the name of a file.
BufferArgument(b) == [isBuffer |-> TRUE, path |-> "", bytes |-> b]
PathArgument(name) == [isBuffer |-> FALSE, path |-> name, bytes |-> <<>>]
NoArgument == [isBuffer |-> FALSE, path |-> "", bytes |-> <<>>]
NoOutcome == [kind |-> "none", value |-> NoResult, error |-> "none"]

\* A header check that compares the version as well, as a reader of
\* 'bplist00' files might write it.
headerOkWithVersion(v, kept, b) ==
  decode(v, kept, subarray(b, 0, Len(bplist) + 2)).text = bplist \o Version00

\* const header = buffer.subarray(0, 'bplist'.length): the version bytes are
\* not part of what is compared.
headerOk(v, kept, b) == decode(v, kept, subarray(b, 0, Len(bplist))).text = bplist

\* The trailer, the last 32 bytes: the DataView revision reads it at
\* byteLength - 32 + k of the whole buffer, the others cut it out first.
trailerOf(b) == subarray(b, Len(b) - 32, Len(b))

trailerUint8(v, b, k) ==
  IF v = "DataView" THEN getUint8(b, Len(b) - 32 + k) ELSE getUint8(trailerOf(b), k)

trailerUint64(v, b, k) ==
  IF v = "DataView" THEN getBigUint64(b, Len(b) - 32 + k)
  ELSE readUInt64BE(v, trailerOf(b), k)

\* The five trailer fields in the order the source reads them.
trailerField(v, b, n) ==
  CASE n = 1 -> trailerUint8(v, b, 6)
    [] n = 2 -> trailerUint8(v, b, 7)
    [] n = 3 -> trailerUint64(v, b, 8)
    [] n = 4 -> trailerUint64(v, b, 16)
    [] OTHER -> trailerUint64(v, b, 24)

\* Offset-table entry i.
offsetEntry(v, b, tableOff, size, i) ==
  readUInt(v, subarray(b, tableOff + i * size, tableOff + (i + 1) * size))

Throw(e, idx) ==
  /\ pc' = "thrown"
  /\ error' = e
  /\ thrownAt' = idx
  /\ call' = NoCall
  /\ stack' = <<>>
  /\ result' = result

Init ==
  /\ variant \in Variants
  /\ buffer \in Inputs
  /\ pc = "header"
  /\ offsetSize = 0 /\ objectRefSize = 0 /\ numObjects = 0
  /\ topObject = 0 /\ offsetTableOffset = 0
  /\ offsetTable = <<>>
  /\ call = NoCall
  /\ stack = <<>>
  /\ result = NoResult
  /\ error = "none"
  /\ thrownAt = 0 - 1
  /\ trailerReads = 0
  /\ tableReads = 0
  /\ last = NoObject
  /\ textDecoder = <<>>
  /\ input = buffer
  /\ entryPoint = "parseBuffer"
  /\ argument = BufferArgument(buffer)
  /\ callback = FALSE
  /\ outcome = NoOutcome
  /\ callbacks = <<>>
  /\ escaped = FALSE
  /\ history = {}
  /\ previous = NoArgument

CheckHeader ==
  /\ pc = "header"
  /\ textDecoder' = decode(variant, textDecoder, subarray(buffer, 0, Len(bplist))).kept
  /\ IF headerOk(variant, textDecoder, buffer)
     THEN pc' = "trailer" /\ UNCHANGED <<error, thrownAt, call, stack, result>>
     ELSE Throw("InvalidHeader", 0 - 1)
  /\ UNCHANGED <<variant, buffer, offsetSize, objectRefSize, numObjects, topObject,
                 offsetTableOffset, offsetTable, trailerReads, tableReads, last,
                 outside>>

\* The number of trailer fields read before the first read that throws.
fieldsRead(v, b) ==
  IF \E n \in 1..5 : ~trailerField(v, b, n).ok
  THEN (CHOOSE n \in 1..5 : /\ ~trailerField(v, b, n).ok
                            /\ \A m \in 1..(n - 1) : trailerField(v, b, m).ok) - 1
  ELSE 5

ReadTrailer ==
  /\ pc = "trailer"
  /\ LET n == fieldsRead(variant, buffer) IN
       /\ trailerReads' = n
       /\ offsetSize'        = IF n >= 1 THEN trailerField(variant, buffer, 1).val ELSE 0
       /\ objectRefSize'     = IF n >= 2 THEN trailerField(variant, buffer, 2).val ELSE 0
       /\ numObjects'        = IF n >= 3 THEN trailerField(variant, buffer, 3).val ELSE 0
       /\ topObject'         = IF n >= 4 THEN trailerField(variant, buffer, 4).val ELSE 0
       /\ offsetTableOffset' = IF n >= 5 THEN trailerField(variant, buffer, 5).val ELSE 0
       /\ IF n = 5 THEN pc' = "count" /\ UNCHANGED <<error, thrownAt, call, stack, result>>
          ELSE Throw(trailerField(variant, buffer, n + 1).err, 0 - 1)
  /\ UNCHANGED <<variant, buffer, offsetTable, tableReads, last, textDecoder, outside>>

\* The comparison with >= in place of >.
reachesMaxObjectCount(n) == n >= maxObjectCount

\* numObjects > maxObjectCount
exceedsMaxObjectCount(n) == n > maxObjectCount

CheckObjectCount ==
  /\ pc = "count"
  /\ IF exceedsMaxObjectCount(numObjects)
     THEN Throw("MaxObjectCount", 0 - 1)
     ELSE pc' = "table" /\ UNCHANGED <<error, thrownAt, call, stack, result>>
  /\ UNCHANGED <<variant, buffer, offsetSize, objectRefSize, numObjects, topObject,
                 offsetTableOffset, offsetTable, trailerReads, tableReads, last,
                 textDecoder, outside>>

\* The loop that fills offsetTable; it stops at the first entry readUInt
\* refuses.
BuildOffsetTable ==
  /\ pc = "table"
  /\ LET entry(i) == offsetEntry(variant, buffer, offsetTableOffset, offsetSize, i)
         bad == {i \in 0..(numObjects - 1) : ~entry(i).ok}
         n   == IF bad = {} THEN numObjects
                ELSE CHOOSE i \in bad : \A j \in bad : i <= j
     IN  /\ offsetTable' = [i \in 1..n |-> entry(i - 1).val]
         /\ tableReads' = n
         /\ IF bad = {}
            THEN /\ pc' = "decode" /\ call' = <<topObject>>
                 /\ UNCHANGED <<error, thrownAt, stack, result>>
            ELSE Throw(entry(n).err, 0 - 1)
  /\ UNCHANGED <<variant, buffer, offsetSize, objectRefSize, numObjects, topObject,
                 offsetTableOffset, trailerReads, last, textDecoder, outside>>

----------------------------------------------------------------------------
(* parseObject.  An object index outside the offset table gives an         *)
(* undefined offset, and a byte outside the buffer an undefined type byte:  *)
(* both make objType and objInfo 0.                                         *)

offsetOf(idx) ==
  IF idx >= 0 /\ idx < Len(offsetTable) THEN offsetTable[idx + 1] ELSE 0 - 1

typeOf(idx)    == byteAt(buffer, offsetOf(idx))
objTypeOf(idx) == typeOf(idx) \div 16
objInfoOf(idx) == typeOf(idx) % 16

Entering(kind) ==
  /\ pc = "decode"
  /\ call # NoCall
  /\ objectKind(objTypeOf(call[1])) = kind
  /\ last' = [idx |-> call[1], offset |-> offsetOf(call[1]),
              type |-> IF offsetOf(call[1]) >= 0 /\ offsetOf(call[1]) < Len(buffer)
                       THEN typeOf(call[1]) ELSE 0 - 1,
              kind |-> kind]
  /\ UNCHANGED <<variant, offsetSize, objectRefSize, numObjects, topObject,
                 offsetTableOffset, offsetTable, trailerReads, tableReads, outside>>

\* The engine's call stack: parseObject, parseArray and parseDictionary call
\* each other without a limit of their own, and a call deeper than the stack
\* allows throws RangeError: Maximum call stack size exceeded.
callStackExhausted(depth) == depth >= MaxDepth

\* A descent with a guard: a reference to a container that is being filled
\* is not followed, it refers to no object.
descendUnlessAncestor(ref, st) ==
  IF \E n \in 1..Len(st) : st[n].idx = ref THEN <<0 - 1>> ELSE <<ref>>

\* parseObject(objRef), parseObject(keyRef), parseObject(valRef): whatever
\* the reference is, a container being filled included, it is decoded.
descend(ref, st) == <<ref>>

\* typeof key !== "string" throws; the Buffer revision has no such check.
keyAccepted(v, key) == v = "Buffer" \/ key.t = "string"

\* A decoded value goes to the frame that asked for it, or out of parseBuffer
\* (return parseObject(topObject); the Buffer revision returns [ value ]).
Deliver(st, val) ==
  IF st = <<>>
  THEN /\ pc' = "returned"
       /\ result' = (IF variant = "Buffer" THEN Tuple(<<val>>) ELSE val)
       /\ call' = NoCall /\ stack' = st /\ UNCHANGED <<error, thrownAt>>
  ELSE LET n == Len(st)
           f == st[n]
       IN  CASE f.kind = "array" ->
                  /\ stack' = [st EXCEPT ![n] =
                                 [f EXCEPT !.acc = Append(f.acc, val), !.i = f.i + 1]]
                  /\ call' = NoCall /\ pc' = "decode" /\ UNCHANGED <<result, error, thrownAt>>
             [] f.kind = "dict" /\ f.phase = "key" ->
                  IF ~keyAccepted(variant, val)
                  THEN Throw("KeyType", f.idx)
                  ELSE /\ stack' = [st EXCEPT ![n] =
                                      [f EXCEPT !.key = val, !.phase = "val"]]
                       /\ call' = descend(f.valRef, st) /\ pc' = "decode"
                       /\ UNCHANGED <<result, error, thrownAt>>
             [] OTHER ->
                  /\ stack' = [st EXCEPT ![n] =
                                 [f EXCEPT !.acc = dictSet(f.acc, toPropertyKey(f.key), val),
                                           !.pairs = Append(f.pairs, [k |-> f.key, val |-> val]),
                                           !.i = f.i + 1, !.phase = "iter", !.key = Null]]
                  /\ call' = NoCall /\ pc' = "decode" /\ UNCHANGED <<result, error, thrownAt>>

\* A return that swallows the exception and hands undefined to the caller.
FinishSwallowing(r) == Deliver(stack, IF r.ok THEN r.val ELSE Undefined)

\* return parseX(): the value goes to the caller, an exception unwinds all
\* of parseBuffer.
Finish(r) == IF r.ok THEN Deliver(stack, r.val) ELSE Throw(r.err, call[1])

ParseSimple ==
  /\ Entering("simple")
  /\ UNCHANGED <<buffer, textDecoder>>
  /\ Finish(parseSimple(objInfoOf(call[1])))

ParseInteger ==
  /\ Entering("integer")
  /\ UNCHANGED <<buffer, textDecoder>>
  /\ Finish(parseInteger(variant, buffer, offsetOf(call[1]), objInfoOf(call[1])))

ParseUID ==
  /\ Entering("uid")
  /\ UNCHANGED <<buffer, textDecoder>>
  /\ Finish(parseUID(variant, buffer, offsetOf(call[1]), objInfoOf(call[1])))

ParseReal ==
  /\ Entering("real")
  /\ UNCHANGED <<buffer, textDecoder>>
  /\ Finish(parseReal(variant, buffer, offsetOf(call[1]), objInfoOf(call[1])))

ParseDate ==
  /\ Entering("date")
  /\ UNCHANGED <<buffer, textDecoder>>
  /\ Finish(parseDate(variant, buffer, offsetOf(call[1]), objInfoOf(call[1])))

ParseData ==
  /\ Entering("data")
  /\ UNCHANGED <<buffer, textDecoder>>
  /\ Finish(parseData(variant, buffer, offsetOf(call[1]), objInfoOf(call[1])))

ParseAsciiString ==
  /\ Entering("ascii")
  /\ LET plainBuffer == stringBytes(variant, buffer, offsetOf(call[1]), objInfoOf(call[1]), FALSE)
     IN  textDecoder' = IF plainBuffer.ok
                        THEN decode(variant, textDecoder, plainBuffer.val.bytes).kept
                        ELSE textDecoder
  /\ Finish(parsePlistString(variant, textDecoder, buffer, offsetOf(call[1]),
                             objInfoOf(call[1]), FALSE))
  /\ UNCHANGED buffer

ParseUtf16String ==
  /\ Entering("utf16")
  /\ LET plainBuffer == stringBytes(variant, buffer, offsetOf(call[1]), objInfoOf(call[1]), TRUE)
     IN  buffer' = IF plainBuffer.ok
                   THEN swapOnCopy(variant, buffer, plainBuffer.val.start, plainBuffer.val.end)
                   ELSE buffer
  /\ Finish(parsePlistString(variant, textDecoder, buffer, offsetOf(call[1]),
                             objInfoOf(call[1]), TRUE))
  /\ UNCHANGED textDecoder

UnhandledType ==
  /\ Entering("unhandled")
  /\ UNCHANGED <<buffer, textDecoder>>
  /\ Throw("UnhandledType", call[1])

\* A frame: the loop state of one parseArray or parseDictionary call.  pairs
\* is the history of the keys and values the dictionary loop decoded.
Frame(kind, idx, h, offset) ==
  [kind |-> kind, idx |-> idx, length |-> h.length, base |-> offset + h.start,
   i |-> 0, acc |-> <<>>, pairs |-> <<>>, phase |-> "iter", key |-> Null,
   valRef |-> 0]

\* parseArray up to its loop.
ParseArray ==
  /\ Entering("array")
  /\ UNCHANGED <<buffer, textDecoder>>
  /\ LET h == lengthHeader(variant, buffer, offsetOf(call[1]), objInfoOf(call[1]))
     IN  IF ~h.ok THEN Throw(h.err, call[1])
         ELSE IF aboveMaxObjectSize(variant, Times(h.length, objectRefSize))
         THEN Throw("HeapSpace", call[1])
         ELSE IF callStackExhausted(Len(stack))
         THEN Throw("CallStack", call[1])
         ELSE /\ stack' = Append(stack, Frame("array", call[1], h, offsetOf(call[1])))
              /\ call' = NoCall /\ pc' = "decode" /\ UNCHANGED <<result, error, thrownAt>>

\* parseDictionary up to its loop.
ParseDictionary ==
  /\ Entering("dict")
  /\ UNCHANGED <<buffer, textDecoder>>
  /\ LET h == lengthHeader(variant, buffer, offsetOf(call[1]), objInfoOf(call[1]))
     IN  IF ~h.ok THEN Throw(h.err, call[1])
         ELSE IF aboveMaxObjectSize(variant, Times(Times(h.length, 2), objectRefSize))
         THEN Throw("HeapSpace", call[1])
         ELSE IF callStackExhausted(Len(stack))
         THEN Throw("CallStack", call[1])
         ELSE /\ stack' = Append(stack, Frame("dict", call[1], h, offsetOf(call[1])))
              /\ call' = NoCall /\ pc' = "decode" /\ UNCHANGED <<result, error, thrownAt>>

\* The object reference number i of a reference list starting at base.
objRefAt(v, b, base, refSize, i) ==
  readUInt(v, subarray(b, base + i * refSize, base + (i + 1) * refSize))

InLoop(kind) ==
  /\ pc = "decode"
  /\ call = NoCall
  /\ stack # <<>>
  /\ stack[Len(stack)].kind = kind
  /\ UNCHANGED <<variant, buffer, offsetSize, objectRefSize, numObjects, topObject,
                 offsetTableOffset, offsetTable, trailerReads, tableReads, last,
                 textDecoder, outside>>

\* One turn of parseArray's loop, up to the call of parseObject(objRef).
ArrayNext ==
  /\ InLoop("array")
  /\ LET f == stack[Len(stack)]
         r == objRefAt(variant, buffer, f.base, objectRefSize, f.i)
     IN  /\ f.i < f.length
         /\ f.i < MaxElements
         /\ IF r.ok
            THEN call' = descend(r.val, stack) /\ UNCHANGED <<pc, stack, result, error, thrownAt>>
            ELSE Throw(r.err, f.idx)

\* return array
ArrayDone ==
  /\ InLoop("array")
  /\ LET f == stack[Len(stack)]
     IN  /\ f.i >= f.length
         /\ Deliver(SubSeq(stack, 1, Len(stack) - 1), ArrayProperty(f.acc))

\* One turn of parseDictionary's loop, up to the call of parseObject(keyRef):
\* both references are read first.
DictionaryNext ==
  /\ InLoop("dict")
  /\ LET n == Len(stack)
         f == stack[n]
         k == objRefAt(variant, buffer, f.base, objectRefSize, f.i)
         w == objRefAt(variant, buffer, f.base + Times(f.length, objectRefSize),
                       objectRefSize, f.i)
     IN  /\ f.i < f.length
         /\ f.i < MaxElements
         /\ IF ~k.ok THEN Throw(k.err, f.idx)
            ELSE IF ~w.ok THEN Throw(w.err, f.idx)
            ELSE /\ stack' = [stack EXCEPT ![n] =
                                [f EXCEPT !.valRef = w.val, !.phase = "key"]]
                 /\ call' = descend(k.val, stack)
                 /\ UNCHANGED <<pc, result, error, thrownAt>>

\* return dict
DictionaryDone ==
  /\ InLoop("dict")
  /\ LET f == stack[Len(stack)]
     IN  /\ f.i >= f.length
         /\ Deliver(SubSeq(stack, 1, Len(stack) - 1), DictionaryProperty(f.acc))

Next ==
  \/ CheckHeader
  \/ ReadTrailer
  \/ CheckObjectCount
  \/ BuildOffsetTable
  \/ ParseSimple
  \/ ParseInteger
  \/ ParseUID
  \/ ParseReal
  \/ ParseDate
  \/ ParseData
  \/ ParseAsciiString
  \/ ParseUtf16String
  \/ ParseArray
  \/ ParseDictionary
  \/ UnhandledType
  \/ ArrayNext
  \/ ArrayDone
  \/ DictionaryNext
  \/ DictionaryDone

Spec == Init /\ [][Next]_vars

----------------------------------------------------------------------------
(* A caller making one call after the other: parseBuffer in every          *)
(* revision, parseFile and parseFileSync in the Buffer revision, which is   *)
(* the one that has them.  Between two calls only the module's own state    *)
(* lives on: the shared TextDecoder.                                        *)

MaxCalls == 3

CallInputs == {Rich, Unhandled, CutShort}

\* The files on disk; every other name has no file.
Files == [name \in {"rich.bplist", "bad.bplist"} |->
            IF name = "rich.bplist" THEN Rich ELSE Unhandled]
Paths == DOMAIN Files \cup {"missing.bplist"}

Arguments ==
  {BufferArgument(b) : b \in CallInputs} \cup {PathArgument(name) : name \in Paths}

InitCalls ==
  /\ variant \in Variants
  /\ buffer = <<>>
  /\ pc = "idle"
  /\ offsetSize = 0 /\ objectRefSize = 0 /\ numObjects = 0
  /\ topObject = 0 /\ offsetTableOffset = 0
  /\ offsetTable = <<>>
  /\ call = NoCall
  /\ stack = <<>>
  /\ result = NoResult
  /\ error = "none"
  /\ thrownAt = 0 - 1
  /\ trailerReads = 0
  /\ tableReads = 0
  /\ last = NoObject
  /\ textDecoder = <<>>
  /\ input = <<>>
  /\ entryPoint = "none"
  /\ argument = NoArgument
  /\ callback = FALSE
  /\ outcome = NoOutcome
  /\ callbacks = <<>>
  /\ escaped = FALSE
  /\ history = {}
  /\ previous = NoArgument

\* The locals of a call are new in every call.
FreshLocals ==
  /\ offsetSize' = 0 /\ objectRefSize' = 0 /\ numObjects' = 0
  /\ topObject' = 0 /\ offsetTableOffset' = 0
  /\ offsetTable' = <<>>
  /\ call' = NoCall
  /\ stack' = <<>>
  /\ result' = NoResult
  /\ error' = "none"
  /\ thrownAt' = 0 - 1
  /\ trailerReads' = 0
  /\ tableReads' = 0
  /\ last' = NoObject

\* The caller calls parseBuffer(buffer), parseFile(fileNameOrBuffer,
\* callback) or parseFileSync(fileNameOrBuffer).  With a Buffer, parseBuffer
\* runs at once; with a name, the file is read first.
Call ==
  /\ pc = "idle"
  /\ Cardinality(history) < MaxCalls
  /\ \E e \in {"parseBuffer", "parseFile", "parseFileSync"}, a \in Arguments,
        cb \in BOOLEAN :
       /\ e # "parseBuffer" => variant = "Buffer"
       /\ e = "parseBuffer" => a.isBuffer
       /\ cb => e = "parseFile"
       /\ entryPoint' = e /\ argument' = a /\ callback' = cb
       /\ buffer' = a.bytes /\ input' = a.bytes
       /\ pc' = IF a.isBuffer THEN "header" ELSE "read"
  /\ FreshLocals
  /\ outcome' = NoOutcome /\ callbacks' = <<>> /\ escaped' = FALSE
  /\ UNCHANGED <<variant, textDecoder, history, previous>>

\* try { result = parseBuffer(buffer); resolve(result) } catch (ex) {
\* reject(err) } with the catch resolving instead.
tryParseBufferResolving(ok, value, err) ==
  [kind |-> "resolved", value |-> IF ok THEN value ELSE NoResult, error |-> "none"]

\* try { result = parseBuffer(buffer); resolve(result) } catch (ex) {
\* err = ex; reject(err) }
tryParseBuffer(ok, value, err) ==
  IF ok THEN [kind |-> "resolved", value |-> value, error |-> "none"]
  ELSE [kind |-> "rejected", value |-> NoResult, error |-> err]

\* return parseBuffer(...): the value or the exception goes to the caller as
\* it is.
direct(ok, value, err) ==
  IF ok THEN [kind |-> "returned", value |-> value, error |-> "none"]
  ELSE [kind |-> "thrown", value |-> NoResult, error |-> err]

\* fs.readFile's callback, fs.readFileSync: the bytes of the file become the
\* buffer; without a file parseFileSync throws the read error and parseFile
\* rejects with it and does return callback(err), which without a callback
\* throws a TypeError inside the read's callback.
ReadFile ==
  /\ pc = "read"
  /\ IF argument.path \in DOMAIN Files
     THEN /\ buffer' = Files[argument.path] /\ input' = Files[argument.path]
          /\ pc' = "header"
          /\ UNCHANGED <<outcome, callbacks, escaped>>
     ELSE /\ pc' = "ended"
          /\ outcome' = IF entryPoint = "parseFile"
                        THEN [kind |-> "rejected", value |-> NoResult, error |-> "ENOENT"]
                        ELSE direct(FALSE, NoResult, "ENOENT")
          /\ callbacks' = IF entryPoint = "parseFile" /\ callback
                          THEN <<[err |-> "ENOENT", result |-> NoResult]>> ELSE <<>>
          /\ escaped' = (entryPoint = "parseFile" /\ ~callback)
          /\ UNCHANGED <<buffer, input>>
  /\ UNCHANGED <<variant, offsetSize, objectRefSize, numObjects, topObject,
                 offsetTableOffset, offsetTable, call, stack, result, error, thrownAt,
                 trailerReads, tableReads, last, textDecoder, entryPoint, argument,
                 callback, history, previous>>

\* parseBuffer has returned or thrown: parseFile settles its promise and
\* calls the callback (finally { if (callback) callback(err, result) }), the
\* others hand the value or the exception on.
Settle ==
  /\ pc \in {"returned", "thrown"}
  /\ entryPoint # "none"
  /\ pc' = "ended"
  /\ outcome' = IF entryPoint = "parseFile"
                THEN tryParseBuffer(pc = "returned", result, error)
                ELSE direct(pc = "returned", result, error)
  /\ callbacks' = IF entryPoint = "parseFile" /\ callback
                  THEN <<[err |-> error, result |-> result]>> ELSE <<>>
  /\ UNCHANGED <<variant, buffer, offsetSize, objectRefSize, numObjects, topObject,
                 offsetTableOffset, offsetTable, call, stack, result, error, thrownAt,
                 trailerReads, tableReads, last, textDecoder, input, entryPoint, argument,
                 callback, escaped, history, previous>>

\* The call as its caller saw it.
ended == [entryPoint |-> entryPoint, argument |-> argument, outcome |-> outcome]

\* The caller has the outcome and is ready for its next call.
Observe ==
  /\ pc = "ended"
  /\ pc' = "idle"
  /\ history' = history \cup {ended}
  /\ previous' = argument
  /\ UNCHANGED <<variant, buffer, offsetSize, objectRefSize, numObjects, topObject,
                 offsetTableOffset, offsetTable, call, stack, result, error, thrownAt,
                 trailerReads, tableReads, last, textDecoder, input, entryPoint, argument,
                 callback, outcome, callbacks, escaped>>

NextCalls ==
  \/ Call
  \/ ReadFile
  \/ CheckHeader
  \/ ReadTrailer
  \/ CheckObjectCount
  \/ BuildOffsetTable
  \/ ParseSimple
  \/ ParseInteger
  \/ ParseUID
  \/ ParseReal
  \/ ParseDate
  \/ ParseData
  \/ ParseAsciiString
  \/ ParseUtf16String
  \/ ParseArray
  \/ ParseDictionary
  \/ UnhandledType
  \/ ArrayNext
  \/ ArrayDone
  \/ DictionaryNext
  \/ DictionaryDone
  \/ Settle
  \/ Observe

Calls == InitCalls /\ [][NextCalls]_vars

----------------------------------------------------------------------------
(* parseObject as the code writes it: one recursive function.  depth is the *)
(* number of parseArray and parseDictionary calls it runs inside; the       *)
(* actions above are the same function taken one call at a time.            *)

RECURSIVE parseObject(_, _), parseArray(_, _, _), parseDictionary(_, _, _)

\* for (let i = 0; i < length; i++) array[i] = parseObject(objRef): the
\* elements from number i on.
parseArray(f, i, depth) ==
  IF i >= f.length THEN Ok(<<>>)
  ELSE IF i >= MaxElements THEN Err("Elements")
  ELSE LET r == objRefAt(variant, buffer, f.base, objectRefSize, i) IN
       IF ~r.ok THEN Err(r.err)
       ELSE LET e == parseObject(r.val, depth) IN
            IF ~e.ok THEN Err(e.err)
            ELSE LET rest == parseArray(f, i + 1, depth) IN
                 IF ~rest.ok THEN Err(rest.err)
                 ELSE Ok(<<e.val>> \o rest.val)

\* The dictionary after the first n turns of parseDictionary's loop.
parseDictionary(f, n, depth) ==
  IF n = 0 THEN Ok(<<>>)
  ELSE LET before == parseDictionary(f, n - 1, depth) IN
       IF ~before.ok THEN Err(before.err)
       ELSE IF n > MaxElements THEN Err("Elements")
       ELSE LET k == objRefAt(variant, buffer, f.base, objectRefSize, n - 1)
                w == objRefAt(variant, buffer,
                              f.base + Times(f.length, objectRefSize),
                              objectRefSize, n - 1)
            IN  IF ~k.ok THEN Err(k.err)
                ELSE IF ~w.ok THEN Err(w.err)
                ELSE LET key == parseObject(k.val, depth) IN
                     IF ~key.ok THEN Err(key.err)
                     ELSE IF ~keyAccepted(variant, key.val) THEN Err("KeyType")
                     ELSE LET val == parseObject(w.val, depth) IN
                          IF ~val.ok THEN Err(val.err)
                          ELSE Ok(dictSet(before.val, toPropertyKey(key.val),
                                          val.val))

parseObject(tableOffset, depth) ==
  LET offset  == offsetOf(tableOffset)
      objInfo == objInfoOf(tableOffset)
      kind    == objectKind(objTypeOf(tableOffset))
      h       == lengthHeader(variant, buffer, offset, objInfo)
      f       == Frame(kind, tableOffset, h, offset)
  IN  CASE kind = "simple"  -> parseSimple(objInfo)
        [] kind = "integer" -> parseInteger(variant, buffer, offset, objInfo)
        [] kind = "uid"     -> parseUID(variant, buffer, offset, objInfo)
        [] kind = "real"    -> parseReal(variant, buffer, offset, objInfo)
        [] kind = "date"    -> parseDate(variant, buffer, offset, objInfo)
        [] kind = "data"    -> parseData(variant, buffer, offset, objInfo)
        [] kind = "ascii"   -> parsePlistString(variant, textDecoder, buffer, offset, objInfo, FALSE)
        [] kind = "utf16"   -> parsePlistString(variant, textDecoder, buffer, offset, objInfo, TRUE)
        [] kind = "array"   ->
             IF ~h.ok THEN Err(h.err)
             ELSE IF aboveMaxObjectSize(variant, Times(h.length, objectRefSize))
             THEN Err("HeapSpace")
             ELSE IF callStackExhausted(depth) THEN Err("CallStack")
             ELSE LET a == parseArray(f, 0, depth + 1) IN
                  IF a.ok THEN Ok(ArrayProperty(a.val)) ELSE Err(a.err)
        [] kind = "dict"    ->
             IF ~h.ok THEN Err(h.err)
             ELSE IF aboveMaxObjectSize(variant,
                                        Times(Times(h.length, 2), objectRefSize))
             THEN Err("HeapSpace")
             ELSE IF callStackExhausted(depth) THEN Err("CallStack")
             ELSE LET d == parseDictionary(f, Min(Max(h.length, 0), MaxElements + 1),
                                          depth + 1) IN
                  IF d.ok THEN Ok(DictionaryProperty(d.val)) ELSE Err(d.err)
        [] OTHER            -> Err("UnhandledType")

----------------------------------------------------------------------------
(* What the format says about an object, read from the bytes alone.         *)

Terminal == pc \in {"returned", "thrown"}

\* The errors parseBuffer raises itself with throw new Error(...).
DecoderErrors == {"InvalidHeader", "MaxObjectCount", "UintLength",
                  "UnhandledType", "UnhandledSimple", "RealLength",
                  "HeapSpace", "KeyType"}

\* The 64-bit big-endian numObjects field of the trailer, the last 32 bytes
\* of a buffer that has as many, and its low half.
numObjectsField(b) == satBE(0, subarray(trailerOf(b), 8, 16))
numObjectsLow32(b) == satBE(0, subarray(trailerOf(b), 12, 16))

\* The declared length of the object at offset: the low nibble, or with 0xF
\* the big-endian integer of 2^k bytes at offset + 2.
extended(b, offset)    == byteAt(b, offset) % 16 = 15
lengthWidth(b, offset) == Pow2(byteAt(b, offset + 1) % 16)
declaredLength(b, offset) ==
  IF extended(b, offset)
  THEN satBE(0, subarray(b, offset + 2, offset + 2 + lengthWidth(b, offset)))
  ELSE byteAt(b, offset) % 16
payloadStart(b, offset) ==
  IF extended(b, offset) THEN offset + 2 + lengthWidth(b, offset) ELSE offset + 1

\* The object's header lies inside the buffer and, in the extended form, is
\* an integer marker of 1, 2, 4 or 8 bytes.
headerInside(b, offset) ==
  /\ offset >= 0 /\ offset < Len(b)
  /\ extended(b, offset) =>
       /\ byteAt(b, offset + 1) \div 16 = 1
       /\ byteAt(b, offset + 1) % 16 <= 3
       /\ offset + 2 + lengthWidth(b, offset) <= Len(b)

\* The declared payload size in bytes of a data, string, array or dictionary
\* object.
declaredSize(b, offset, refSize) ==
  LET n == declaredLength(b, offset)
      t == byteAt(b, offset) \div 16
  IN  CASE t = 6  -> SatMul(n, 2)
        [] t = 10 -> SatMul(n, refSize)
        [] t = 13 -> SatMul(SatMul(n, 2), refSize)
        [] OTHER  -> n

\* An array whose header, count and references all lie inside the buffer and
\* whose references name objects of the offset table.
arrayWellFormed(idx) ==
  LET offset == offsetOf(idx)
      n      == declaredLength(buffer, offset)
      start  == payloadStart(buffer, offset)
  IN  /\ headerInside(buffer, offset)
      /\ byteAt(buffer, offset) \div 16 = 10
      /\ objectRefSize \in 1..8
      /\ n <= Len(buffer)
      /\ start + n * objectRefSize <= Len(buffer)
      /\ \A i \in 0..(n - 1) :
           satBE(0, subarray(buffer, start + i * objectRefSize,
                             start + (i + 1) * objectRefSize)) < numObjects

----------------------------------------------------------------------------
(* C1: a buffer whose first six bytes are not 'bplist' fails with the       *)
(* invalid-header error, and it does so before any trailer field is read;   *)
(* whether the header check passes depends on those six bytes only, never   *)
(* on the version bytes 6 and 7.                                            *)
C1_HeaderCheckedFirst ==
  pc # "header" =>
    /\ subarray(buffer, 0, 6) # bplist =>
         /\ pc = "thrown" /\ error = "InvalidHeader"
         /\ trailerReads = 0 /\ tableReads = 0 /\ result = NoResult
    /\ subarray(buffer, 0, 6) = bplist => error # "InvalidHeader"

\* A full-size buffer with a damaged magic has been refused.
C1_Witness ==
  /\ pc = "thrown" /\ error = "InvalidHeader"
  /\ Len(buffer) >= 38
  /\ subarray(buffer, 6, 8) = Version00

(* C2: every buffer shorter than 38 bytes fails, and fails with one of the  *)
(* decoder's own errors, never with the out-of-bounds error of a read.      *)
C2_ShortBufferFailsCleanly ==
  (Len(buffer) < 38 /\ Terminal) => (pc = "thrown" /\ error \in DecoderErrors)

(* C3 as stated: whenever the 64-bit numObjects field of the trailer is     *)
(* above 32768, parseBuffer fails with 'maxObjectCount exceeded' before an  *)
(* offset-table entry is read; at or below 32768 the check never fails.     *)
C3_CountFieldChecked ==
  (Len(buffer) >= 32 /\ pc \notin {"header", "trailer", "count"}) =>
    /\ numObjectsField(buffer) > 32768 =>
         /\ pc = "thrown" /\ error = "MaxObjectCount"
         /\ tableReads = 0 /\ offsetTable = <<>>
    /\ numObjectsField(buffer) <= 32768 => error # "MaxObjectCount"

\* numObjects as each revision reads it: the whole field, or its low 32 bits
\* in the Buffer revision.
numObjectsRead(v, b) ==
  IF v = "Buffer" THEN numObjectsLow32(b) ELSE numObjectsField(b)

(* C3 amended: whenever numObjects as parseBuffer reads it (the 64-bit      *)
(* field; its low 32 bits in the Buffer revision) is above 32768,           *)
(* parseBuffer fails with 'maxObjectCount exceeded' before an offset-table  *)
(* entry is read; at or below 32768 the check never fails.                  *)
C3_CountAsReadChecked ==
  (Len(buffer) >= 32 /\ pc \notin {"header", "trailer", "count"}) =>
    /\ numObjectsRead(variant, buffer) > 32768 =>
         /\ pc = "thrown" /\ error = "MaxObjectCount"
         /\ tableReads = 0 /\ offsetTable = <<>>
    /\ numObjectsRead(variant, buffer) <= 32768 => error # "MaxObjectCount"

\* The Buffer revision has let a field above 2^32 through on its low half.
C3_Witness ==
  /\ variant = "Buffer"
  /\ numObjectsField(buffer) > 32768
  /\ numObjectsLow32(buffer) = 3
  /\ pc = "decode" /\ tableReads = 3

(* C4: a data, string, array or dictionary object whose declared payload    *)
(* size is above 100,000,000 bytes fails at once: its decoder throws before *)
(* it slices a payload or decodes an element.                               *)
C4_OversizedPayloadFails ==
  (/\ last.kind \in {"data", "ascii", "utf16", "array", "dict"}
   /\ headerInside(buffer, last.offset)
   /\ declaredSize(buffer, last.offset, objectRefSize) > 100 * 1000 * 1000)
  => (pc = "thrown" /\ thrownAt = last.idx)

handlerOf(nibble) ==
  CASE nibble = 0 -> "simple"  [] nibble = 1 -> "integer" [] nibble = 8 -> "uid"
    [] nibble = 2 -> "real"    [] nibble = 3 -> "date"    [] nibble = 4 -> "data"
    [] nibble = 5 -> "ascii"   [] nibble = 6 -> "utf16"   [] nibble = 10 -> "array"
    [] nibble = 13 -> "dict"
    [] nibble \in {7, 9, 11, 12, 14, 15} -> "unhandled"

(* C6: parseObject picks the decoder by the high nibble of the type byte    *)
(* (0 simple, 1 integer, 8 UID, 2 real, 3 date, 4 data, 5 ASCII, 6 UTF-16,  *)
(* 0xA array, 0xD dictionary); the nibbles 7, 9, 0xB, 0xC, 0xE and 0xF, and *)
(* only they, fail with 'Unhandled type'; every type byte has one outcome.  *)
C6_DispatchOnHighNibble ==
  /\ (pc = "decode" /\ call # NoCall) =>
       objectKind(objTypeOf(call[1])) = handlerOf(objTypeOf(call[1]))
  /\ last.type >= 0 =>
       /\ last.kind = handlerOf(last.type \div 16)
       /\ last.kind = "unhandled" =>
            pc = "thrown" /\ error = "UnhandledType" /\ thrownAt = last.idx
  /\ error = "UnhandledType" =>
       last.type >= 0 /\ last.type \div 16 \in {7, 9, 11, 12, 14, 15}

\* A type byte of the 0x7 family has been refused.
C6_Witness ==
  /\ pc = "thrown" /\ error = "UnhandledType"
  /\ last.type \div 16 = 7

(* C7: a dictionary fails with the 'unexpected property key type' error     *)
(* whenever one of its key references decodes to a value that is not a      *)
(* string: no such key is ever given a value or kept in a dictionary.       *)
C7_NonStringKeyRejected ==
  \A n \in 1..Len(stack) :
    stack[n].kind = "dict" =>
      /\ stack[n].phase = "val" => stack[n].key.t = "string"
      /\ \A j \in 1..Len(stack[n].pairs) : stack[n].pairs[j].k.t = "string"

(* C8: a dictionary of n key references followed by n value references      *)
(* decodes to a dictionary with one entry per key reference, and the entry  *)
(* of key reference number i holds the value of value reference number i.   *)
C8_OneEntryPerKey ==
  \A n \in 1..Len(stack) :
    LET f == stack[n] IN
      (f.kind = "dict" /\ f.phase = "iter"
       /\ \A j \in 1..Len(f.pairs) : f.pairs[j].k.t = "string") =>
        /\ Len(f.pairs) = f.i
        /\ Len(f.acc) = f.i
        /\ \A j \in 1..f.i :
             \E e \in 1..Len(f.acc) :
               f.acc[e].k = f.pairs[j].k.v /\ f.acc[e].val = f.pairs[j].val

(* C9: an array object with count n, the extended count form of n >= 15     *)
(* included, decodes to exactly n values in reference order: its decoder    *)
(* reads the declared count, never refuses a well-formed array, and adds    *)
(* one value per reference.                                                 *)
C9_ArrayDecodesInOrder ==
  /\ (pc = "thrown" /\ thrownAt >= 0 /\ objTypeOf(thrownAt) = 10) =>
       ~arrayWellFormed(thrownAt)
  /\ \A n \in 1..Len(stack) :
       LET f == stack[n] IN
         (f.kind = "array" /\ arrayWellFormed(f.idx)) =>
           /\ f.length = declaredLength(buffer, offsetOf(f.idx))
           /\ Len(f.acc) = f.i /\ f.i <= f.length

(* C10: an integer object of 16 payload bytes decodes to the unsigned       *)
(* 128-bit magnitude of those bytes, whatever they are: all zero and with   *)
(* leading zero bytes included.                                             *)
C10_SixteenByteMagnitude ==
  (/\ Terminal /\ variant # "Buffer"
   /\ last.idx = topObject /\ last.type = 20
   /\ last.offset + 17 <= Len(buffer)) =>
    /\ pc = "returned"
    /\ result = BigIntProperty(dropZeros(hexDigits(
                  subarray(buffer, last.offset + 1, last.offset + 17))))

----------------------------------------------------------------------------
\* What parseBuffer returned for the top object: the Buffer revision wraps it
\* in a one-element array.
returnedValue == IF variant = "Buffer" THEN result.v[1] ELSE result

\* The object last entered is the top object, and the size bytes that follow
\* its type byte lie inside the objects' part of the buffer.
topObjectWith(kind, size) ==
  /\ last.idx = topObject /\ last.kind = kind /\ last.type >= 0
  /\ last.offset + 1 + size <= Len(buffer)

payloadOf(size) == subarray(buffer, last.offset + 1, last.offset + 1 + size)

(* C11: an integer object of 1, 2, 4 or 8 payload bytes decodes to the      *)
(* number its big-endian bytes encode, 8 bytes as signed 64-bit two's       *)
(* complement, so that the payload is the encoding of the number and no two *)
(* 8-byte payloads give the same number.                                    *)
C11_IntegerLossless ==
  \A k \in 0..3 :
    (Terminal /\ topObjectWith("integer", Pow2(k)) /\ last.type % 16 = k) =>
      /\ pc = "returned"
      /\ returnedValue.t = "int"
      /\ be(returnedValue.v, Pow2(k)) = payloadOf(Pow2(k))

(* C12: a UID object of type byte 0x8k decodes, for every k in 0..15, to a  *)
(* UID wrapper (never a plain number) whose field is the non-negative       *)
(* big-endian unsigned value of its k + 1 payload bytes.                    *)
C12_UIDOfEveryWidth ==
  \A k \in 0..15 :
    (Terminal /\ topObjectWith("uid", k + 1) /\ last.type % 16 = k) =>
      /\ pc = "returned"
      /\ returnedValue.t = "uid"
      /\ returnedValue.v >= 0
      /\ be(returnedValue.v, k + 1) = payloadOf(k + 1)

(* C13: a real object decodes only when its payload length 2^objInfo is 4   *)
(* or 8, and then to the float of those big-endian bytes; for every other   *)
(* low nibble its decoder fails with an error and hands out no value, in    *)
(* particular not undefined.                                                *)
C13_RealOnlyFourOrEight ==
  /\ (last.kind = "real" /\ last.type >= 0 /\ last.type % 16 \notin {2, 3}) =>
       (pc = "thrown" /\ thrownAt = last.idx)
  /\ \A k \in {2, 3} :
       (Terminal /\ topObjectWith("real", Pow2(k)) /\ last.type % 16 = k) =>
         (pc = "returned" /\ returnedValue = RealProperty(payloadOf(Pow2(k))))
  /\ pc = "returned" => returnedValue # Undefined

\* The instant s seconds and ms milliseconds after the Unix epoch.
Instant(s, ms) == DateProperty([s |-> s, ms |-> ms, bytes |-> <<>>])

\* Eight payload bytes that are the float64 of a whole number of seconds
\* below 2^20: 0.0, 1.0, -1.0, 86400.0 are among the fixtures.
secondsOf(p) ==
  CASE p = Zeros(8)                     -> 0
    [] p = <<63, 240>> \o Zeros(6)      -> 1
    [] p = <<191, 240>> \o Zeros(6)     -> 0 - 1
    [] p = <<64, 245, 24>> \o Zeros(5)  -> 86400
    [] OTHER                            -> 0 - 2

(* C14: a date object decodes to the instant 978307200000 ms after the Unix *)
(* epoch plus 1000 times the float64 seconds that follow the type byte: 0.0 *)
(* gives 2001-01-01T00:00:00Z exactly (978307200 s), and a low nibble other *)
(* than 3 changes neither the result nor whether the decode succeeds.       *)
C14_DateFromEpoch2001 ==
  (Terminal /\ topObjectWith("date", 8)) =>
    /\ pc = "returned"
    /\ returnedValue.t = "date"
    /\ returnedValue = parseDate(variant, buffer, last.offset, 3).val
    /\ payloadOf(8) = Zeros(8) => returnedValue = Instant(978307200, 0)
    /\ secondsOf(payloadOf(8)) # 0 - 2 =>
         returnedValue = Instant(978307200 + secondsOf(payloadOf(8)), 0)
    /\ payloadOf(8) = <<63, 224>> \o Zeros(6) => returnedValue = Instant(978307200, 500)

\* A date whose low nibble is not 3 has decoded to a whole day after the
\* reference date.
C14_Witness ==
  /\ pc = "returned" /\ topObjectWith("date", 8)
  /\ last.type % 16 # 3
  /\ returnedValue = Instant(978307200 + 86400, 0)

(* C15: a UTF-16 string object (tag 0x6) of n characters reads exactly 2n   *)
(* payload bytes and decodes to n code units, unit i being hi * 256 + lo of *)
(* byte pair i: the byte order is corrected once for tag 0x6.  An ASCII     *)
(* object (tag 0x5) never has its bytes exchanged.                          *)
C15_Utf16PairsBigEndian ==
  /\ \A n \in 0..14 :
       (Terminal /\ topObjectWith("utf16", 2 * n) /\ last.type % 16 = n) =>
         /\ pc = "returned"
         /\ returnedValue.t = "string"
         /\ Len(returnedValue.v) = n
         /\ \A i \in 1..n :
              returnedValue.v[i] = payloadOf(2 * n)[2 * i - 1] * 256
                                   + payloadOf(2 * n)[2 * i]
  /\ \A n \in 0..14 :
       (Terminal /\ topObjectWith("ascii", n) /\ last.type % 16 = n
        /\ \A i \in 1..n : payloadOf(n)[i] < 128) =>
         (pc = "returned" /\ returnedValue = StringProperty(payloadOf(n)))

(* C16: an ASCII string object (tag 0x5) of length n decodes to a string of *)
(* exactly n characters, character i having the code of payload byte i,     *)
(* whatever the byte: bytes of 0x80 and above included.                     *)
C16_AsciiOneCharPerByte ==
  \A n \in 0..14 :
    (Terminal /\ topObjectWith("ascii", n) /\ last.type % 16 = n) =>
      /\ pc = "returned"
      /\ returnedValue.t = "string"
      /\ Len(returnedValue.v) = n
      /\ returnedValue.v = payloadOf(n)

\* The bytes of the object last entered that the format makes its payload,
\* for a payload of unit bytes per element.
declaredPayload(unit) ==
  subarray(buffer, payloadStart(buffer, last.offset),
           payloadStart(buffer, last.offset)
           + unit * declaredLength(buffer, last.offset))

\* The top object is of this kind, and its header and its payload of unit
\* bytes per element lie inside the buffer.
topObjectSized(kind, unit) ==
  /\ last.idx = topObject /\ last.kind = kind
  /\ headerInside(buffer, last.offset)
  /\ declaredLength(buffer, last.offset) <= Len(buffer)
  /\ payloadStart(buffer, last.offset)
     + unit * declaredLength(buffer, last.offset) <= Len(buffer)

(* C17: for data, string, array and dictionary objects the length is the    *)
(* low nibble when that is <= 14, with the payload at offset + 1, and with  *)
(* 0xF it is the big-endian integer of 2^k bytes at offset + 2, with the    *)
(* payload at offset + 2 + 2^k, for each width 1, 2, 4 and 8; the decoded   *)
(* value depends on the length and the payload only, not on the form.       *)
C17_LengthHeaderRule ==
  /\ (Terminal /\ topObjectSized("data", 1)) =>
       (pc = "returned" /\ returnedValue.t = "data" /\ returnedValue.v = declaredPayload(1))
  /\ (Terminal /\ topObjectSized("ascii", 1)) =>
       /\ pc = "returned"
       /\ returnedValue = StringProperty(decodeString(variant, textDecoder, declaredPayload(1), FALSE))
  /\ (Terminal /\ topObjectSized("utf16", 2)) =>
       /\ pc = "returned"
       /\ returnedValue = StringProperty(decodeString(variant, textDecoder, declaredPayload(2), TRUE))
  /\ \A n \in 1..Len(stack) :
       LET f == stack[n] IN
         (/\ headerInside(buffer, offsetOf(f.idx))
          /\ declaredLength(buffer, offsetOf(f.idx)) <= Len(buffer)) =>
           /\ f.length = declaredLength(buffer, offsetOf(f.idx))
           /\ f.base = payloadStart(buffer, offsetOf(f.idx))

----------------------------------------------------------------------------
(* C19: parseBuffer never writes to the caller's buffer.  At every step of *)
(* a call, and so after the call whether it returned or threw, every byte   *)
(* of the buffer is what it was before the call; the UTF-16 byte swap acts  *)
(* on a copy of the string's bytes.                                         *)
C19_CallerBufferUntouched == buffer = input

\* A UTF-16 string whose byte pairs differ was decoded by a revision that
\* swaps, and parseBuffer has returned.
C19_Witness ==
  /\ pc = "returned"
  /\ variant \in {"Swap", "Buffer"}
  /\ last.kind = "utf16"
  /\ LET plainBuffer == stringBytes(variant, input, last.offset, last.type % 16, TRUE)
     IN  /\ plainBuffer.ok
         /\ swapBytes(plainBuffer.val.bytes) # plainBuffer.val.bytes
  /\ buffer = input

----------------------------------------------------------------------------
\* The calls that have ended, the one whose outcome the caller is about to
\* take included.
seen == history \cup (IF pc = "ended" THEN {ended} ELSE {})

(* C18: decoding is deterministic and free of hidden state.  Any two       *)
(* parseBuffer calls on byte-identical buffers, whatever parseBuffer calls  *)
(* ran before or between them, end alike: both throw the same error or both *)
(* return the same value tree.                                              *)
C18_SameBytesSameOutcome ==
  \A r1, r2 \in seen :
    (/\ r1.entryPoint = "parseBuffer" /\ r2.entryPoint = "parseBuffer"
     /\ r1.argument.bytes = r2.argument.bytes) =>
      r1.outcome = r2.outcome

\* parseBuffer has returned a value for a buffer it had decoded before, and
\* the call in between decoded another buffer, one whose last string ends
\* in the middle of a UTF-8 sequence.
C18_Witness ==
  /\ pc = "ended"
  /\ entryPoint = "parseBuffer"
  /\ variant = "DataView"
  /\ argument = BufferArgument(Rich)
  /\ outcome.kind = "returned"
  /\ previous = BufferArgument(CutShort)
  /\ \E r \in history : r.entryPoint = "parseBuffer" /\ r.argument = argument
  /\ \E r \in history : r.argument = previous /\ r.outcome.kind = "returned"

(* C20: parseFile and parseFileSync agree.  For the same path or the same   *)
(* buffer, parseFile resolves exactly when parseFileSync returns and with   *)
(* the same value, and rejects exactly when parseFileSync throws; where     *)
(* parseBuffer was called on the same bytes, its value or error is theirs.  *)
C20_FileAndFileSyncAgree ==
  /\ \A r1, r2 \in seen :
       (/\ r1.entryPoint = "parseFile" /\ r2.entryPoint = "parseFileSync"
        /\ r1.argument = r2.argument) =>
         /\ r1.outcome.kind \in {"resolved", "rejected"}
         /\ r2.outcome.kind \in {"returned", "thrown"}
         /\ r1.outcome.kind = "resolved" <=> r2.outcome.kind = "returned"
         /\ r1.outcome.kind = "rejected" <=> r2.outcome.kind = "thrown"
         /\ r1.outcome.value = r2.outcome.value
  /\ \A r1, r2 \in seen :
       (/\ r1.entryPoint \in {"parseFile", "parseFileSync"} /\ r2.entryPoint = "parseBuffer"
        /\ r1.argument = r2.argument) =>
         /\ r1.outcome.value = r2.outcome.value
         /\ r1.outcome.error = r2.outcome.error

\* parseFileSync has returned the value of a file for which parseFile had
\* resolved, and parseFile had rejected for another argument.
C20_Witness ==
  /\ pc = "ended"
  /\ entryPoint = "parseFileSync"
  /\ argument = PathArgument("rich.bplist")
  /\ outcome.kind = "returned"
  /\ outcome.value.t = "tuple"
  /\ \E r \in history : /\ r.entryPoint = "parseFile" /\ r.argument = argument
                        /\ r.outcome.kind = "resolved" /\ r.outcome.value = outcome.value
  /\ \E r \in history : r.entryPoint = "parseFile" /\ r.outcome.kind = "rejected"

----------------------------------------------------------------------------
\* The big-endian unsigned value of the size bytes of entry i of a list of
\* entries that starts at base.
unsignedAt(b, base, size, i) == satBE(0, subarray(b, base + i * size, base + (i + 1) * size))

(* C21: with offsetSize and objectRefSize in 1..8 every read of the offset  *)
(* table and of an object reference gives the big-endian unsigned value of   *)
(* its bytes.  Once the table loop is over, a table that lies inside the     *)
(* buffer has been read whole and entry i is the unsigned value of the       *)
(* offsetSize bytes at offsetTableOffset + i * offsetSize; the reference a   *)
(* container loop hands to parseObject is the unsigned value of its          *)
(* objectRefSize bytes; and a container with an inline length whose          *)
(* references lie inside the buffer never fails on reading a reference.      *)
C21_EveryWidthReadUnsigned ==
  /\ (/\ trailerReads = 5 /\ pc \notin {"header", "trailer", "count", "table"}
      /\ error # "MaxObjectCount"
      /\ offsetSize \in 1..8
      /\ numObjects \in 0..maxObjectCount
      /\ offsetTableOffset + numObjects * offsetSize <= Len(buffer)) =>
       /\ tableReads = numObjects
       /\ \A i \in 0..(numObjects - 1) :
            offsetTable[i + 1] = unsignedAt(buffer, offsetTableOffset, offsetSize, i)
  /\ (/\ pc = "decode" /\ call # NoCall /\ stack # <<>> /\ objectRefSize \in 1..8) =>
       LET f == stack[Len(stack)]
       IN  /\ (f.kind = "array" /\ f.base + (f.i + 1) * objectRefSize <= Len(buffer)) =>
                call[1] = unsignedAt(buffer, f.base, objectRefSize, f.i)
           /\ (f.kind = "dict" /\ f.phase = "key"
                /\ f.base + (2 * f.length) * objectRefSize <= Len(buffer)) =>
                /\ call[1] = unsignedAt(buffer, f.base, objectRefSize, f.i)
                /\ f.valRef = unsignedAt(buffer, f.base + f.length * objectRefSize,
                                         objectRefSize, f.i)
  /\ (/\ pc = "thrown" /\ thrownAt >= 0 /\ objectRefSize \in 1..8
      /\ objTypeOf(thrownAt) \in {10, 13}
      /\ ~extended(buffer, offsetOf(thrownAt))
      /\ offsetOf(thrownAt) + 1 + 2 * objInfoOf(thrownAt) * objectRefSize <= Len(buffer)) =>
       error # "UintLength"

----------------------------------------------------------------------------
(* C22: offsets are checked lazily.  An offset-table entry that points past *)
(* the end of the buffer never makes the table loop fail; decoding the       *)
(* object of such an entry fails; and a failure inside parseObject belongs   *)
(* to the object being decoded or to a container being filled, never to an   *)
(* object nothing referred to.                                               *)
C22_PastEndFailsOnFirstUse ==
  /\ (/\ trailerReads = 5 /\ pc \notin {"header", "trailer", "count", "table"}
      /\ error # "MaxObjectCount"
      /\ offsetSize \in 1..2
      /\ numObjects \in 0..maxObjectCount
      /\ offsetTableOffset + numObjects * offsetSize <= Len(buffer)) =>
       tableReads = numObjects
  /\ (/\ last.idx >= 0 /\ last.idx < Len(offsetTable)
      /\ last.offset >= Len(buffer)) =>
       /\ pc = "thrown"
       /\ thrownAt = last.idx
  /\ (pc = "thrown" /\ thrownAt >= 0) =>
       thrownAt = last.idx \/ objTypeOf(thrownAt) \in {10, 13}

----------------------------------------------------------------------------
(* The object graph as the decoder reads it: the references of a container  *)
(* whose length it accepts, the first MaxElements of each list.              *)
refsOf(idx) ==
  LET kind   == objectKind(objTypeOf(idx))
      offset == offsetOf(idx)
      h      == lengthHeader(variant, buffer, offset, objInfoOf(idx))
  IN  IF kind \notin {"array", "dict"} THEN {}
      ELSE IF ~h.ok THEN {}
      ELSE IF aboveMaxObjectSize(variant, Times(Times(h.length, IF kind = "dict" THEN 2 ELSE 1),
                                               objectRefSize))
      THEN {}
      ELSE LET n    == Min(Max(h.length, 0), MaxElements)
               keys == {objRefAt(variant, buffer, offset + h.start, objectRefSize, i) :
                          i \in 0..(n - 1)}
               vals == {objRefAt(variant, buffer,
                                 offset + h.start + Times(h.length, objectRefSize),
                                 objectRefSize, i) : i \in 0..(n - 1)}
           IN  {r.val : r \in {x \in keys \cup (IF kind = "dict" THEN vals ELSE {}) : x.ok}}

RECURSIVE reach(_)
reach(S) ==
  LET T == S \cup UNION {refsOf(i) : i \in S}
  IN  IF T = S THEN S ELSE reach(T)

\* The offset table is built and a container reachable from the top object
\* refers to itself or to one of its ancestors.
Cyclic ==
  /\ pc \in {"decode", "returned", "thrown"}
  /\ tableReads = numObjects
  /\ ~(pc = "thrown" /\ thrownAt < 0)
  /\ \E i \in reach({topObject}) : i \in reach(refsOf(i))

\* How far parseBuffer has come: its stage, and inside the decode the
\* place of every loop that is running, outermost first.  A loop's place
\* counts its finished turns and, within a turn, whether a reference is
\* being decoded (for a dictionary: the key, then the value).
stageOf(p) ==
  CASE p = "header" -> 0 [] p = "trailer" -> 1 [] p = "count" -> 2 [] p = "table" -> 3
    [] p = "decode" -> 4 [] OTHER -> 5

place(st, c, n) ==
  LET f == st[n]
  IN  IF f.kind = "array"
      THEN 2 * f.i + (IF n < Len(st) \/ c # NoCall THEN 1 ELSE 0)
      ELSE 3 * f.i + (CASE f.phase = "iter" -> 0 [] f.phase = "key" -> 1 [] OTHER -> 2)

position == [n \in 1..Len(stack) |-> place(stack, call, n)]

\* p comes before q in the order of the dictionary, a sequence before each
\* of its extensions.
LexLess(p, q) ==
  \E k \in 1..Len(q) :
    /\ \A j \in 1..(k - 1) : j <= Len(p) /\ p[j] = q[j]
    /\ k > Len(p) \/ p[k] < q[k]

\* A step takes parseBuffer to a later stage or, within the decode, to a
\* later position.
Advances ==
  \/ stageOf(pc') > stageOf(pc)
  \/ stageOf(pc') = stageOf(pc) /\ pc = "decode" /\ LexLess(position, position')

\* The decode always has its next step at hand, an object to decode or a
\* loop to go on with, and its positions are bounded.
Underway ==
  /\ pc = "decode" => (call # NoCall \/ stack # <<>>)
  /\ Len(stack) <= MaxDepth
  /\ \A n \in 1..Len(stack) : stack[n].i >= 0 /\ stack[n].i <= MaxElements

(* C23 as stated: the decode has no cycle or depth guard.  A plist whose    *)
(* object graph reachable from the top object has a cycle recurses without   *)
(* end, so its call neither returns nor throws; every other input ends with  *)
(* a value or an error.                                                      *)
C23_CycleRecursesForever ==
  /\ [](Cyclic => ~Terminal)
  /\ []Underway
  /\ [][Advances]_vars

(* C23: for a plist whose object graph reachable from the top object has a  *)
(* cycle parseBuffer never returns a value: the call throws, on an object    *)
(* that fails before the cycle closes or, the cycle followed, when the call  *)
(* stack is used up.  Every call ends with a value or an error: each step    *)
(* takes it to a later stage or position, of which there are finitely many,  *)
(* and short of the end a next step is always at hand.                       *)
C23_CycleNeverReturns ==
  /\ [](Cyclic => pc # "returned")
  /\ []Underway
  /\ [][Advances]_vars

\* An array that is its own element was followed until the call stack was
\* used up.
C23_Witness ==
  /\ Cyclic
  /\ pc = "thrown" /\ error = "CallStack"
  /\ thrownAt = topObject
  /\ topObject \in refsOf(topObject)

----------------------------------------------------------------------------
(* The caller after parseBuffer has returned: it owns the value tree and    *)
(* goes on using its buffer.  A Data value that is a view has no bytes of    *)
(* its own: what it holds is what the buffer holds at its place.             *)

RECURSIVE refreshed(_, _)
\* The value tree as it reads once the buffer's memory holds b.
refreshed(value, b) ==
  CASE value.t = "data" /\ "from" \in DOMAIN value ->
         [value EXCEPT !.v = IF value.to > value.from
                             THEN SubSeq(b, value.from + 1, value.to) ELSE <<>>]
    [] value.t \in {"array", "tuple"} ->
         [value EXCEPT !.v = [i \in 1..Len(value.v) |-> refreshed(value.v[i], b)]]
    [] value.t = "dict" ->
         [value EXCEPT !.v = [i \in 1..Len(value.v) |->
                                [k |-> value.v[i].k, val |-> refreshed(value.v[i].val, b)]]]
    [] OTHER -> value

RECURSIVE viewsOf(_)
\* The places of the buffer that the Data values of a tree are views of.
viewsOf(value) ==
  CASE value.t = "data" /\ "from" \in DOMAIN value ->
         IF value.to > value.from THEN {[from |-> value.from, to |-> value.to]} ELSE {}
    [] value.t \in {"array", "tuple"} -> UNION {viewsOf(value.v[i]) : i \in 1..Len(value.v)}
    [] value.t = "dict" -> UNION {viewsOf(value.v[i].val) : i \in 1..Len(value.v)}
    [] OTHER -> {}

\* Another byte than x.
other(x) == IF x = 255 THEN 0 ELSE 255

\* buffer[p] = x, written by the caller or through a view: the memory is one.
stored(p) ==
  /\ buffer' = replaced(buffer, p, other(buffer[p + 1]))
  /\ result' = refreshed(result, buffer')
  /\ pc' = "reused"
  /\ UNCHANGED <<variant, offsetSize, objectRefSize, numObjects, topObject,
                 offsetTableOffset, offsetTable, call, stack, error, thrownAt,
                 trailerReads, tableReads, last, textDecoder, outside>>

\* The caller overwrites a byte of the buffer it had passed.
CallerOverwrites ==
  /\ pc = "returned"
  /\ \E p \in 0..(Len(buffer) - 1) : stored(p)

\* The caller writes into a Data value of the tree it was given.
CallerWritesData ==
  /\ pc = "returned"
  /\ \E view \in viewsOf(result) : \E p \in view.from..(view.to - 1) : stored(p)

\* Plists with Data values, and the two that keep every step in use.
ReuseInputs ==
  {Rich, Unhandled} \cup {single(obj) : obj \in {o \in LengthForms : o[1] \div 16 = 4}}

InitReuse == Init /\ buffer \in ReuseInputs

NextReuse == Next \/ CallerOverwrites \/ CallerWritesData

Reuse == InitReuse /\ [][NextReuse]_vars

(* C24: the Data and String values of the returned tree do not alias the    *)
(* caller's buffer.  When the caller overwrites a byte of its buffer after   *)
(* parseBuffer has returned, no value of the tree changes, and when it       *)
(* writes into a Data value of the tree, no byte of the buffer changes.      *)
C24_ValuesAreCopies ==
  [][/\ CallerOverwrites => result' = result
     /\ CallerWritesData => buffer' = buffer]_vars

----------------------------------------------------------------------------
\* The place of a property among the key references of the dictionary frame f.
keyReference(f, k) == CHOOSE j \in 1..Len(f.pairs) : f.pairs[j].k.v = k

(* C25: the entries of a decoded dictionary enumerate in key-reference       *)
(* order, for every set of distinct string keys, integer-like keys such as   *)
(* "2" then "1" included: of two entries the one enumerated first is the one *)
(* whose key reference comes first in the object.                            *)
C25_EntriesInKeyReferenceOrder ==
  \A n \in 1..Len(stack) :
    LET f == stack[n] IN
      (/\ f.kind = "dict" /\ f.phase = "iter"
       /\ \A j \in 1..Len(f.pairs) : f.pairs[j].k.t = "string"
       /\ \A i, j \in 1..Len(f.pairs) : f.pairs[i].k.v = f.pairs[j].k.v => i = j) =>
        \A d, e \in 1..Len(f.acc) :
          d < e => keyReference(f, f.acc[d].k) < keyReference(f, f.acc[e].k)

----------------------------------------------------------------------------
(* C26: every parseFile call, with a path or a buffer, with or without a    *)
(* callback, the read and the parse succeeding or failing, settles its       *)
(* promise once, resolved with the parse result or rejected with the read or *)
(* parse error unchanged; a callback that was supplied is called exactly     *)
(* once with the same outcome; and no other exception escapes.               *)
C26_ParseFileSettlesOnce ==
  (pc = "ended" /\ entryPoint = "parseFile") =>
    /\ \/ /\ outcome.kind = "resolved"
           /\ error = "none" /\ outcome.value = result /\ result # NoResult
        \/ /\ outcome.kind = "rejected" /\ outcome.value = NoResult
           /\ outcome.error = (IF argument.isBuffer \/ argument.path \in DOMAIN Files
                               THEN error ELSE "ENOENT")
           /\ outcome.error # "none"
    /\ callback => /\ Len(callbacks) = 1
                   /\ callbacks[1].err = outcome.error
                   /\ callbacks[1].result = outcome.value
    /\ ~callback => callbacks = <<>>
    /\ ~escaped

====
